---- MODULE Spec2Model ----
(***************************************************************************)
(* A model of estrois, an HTTP read-through cache in front of an object    *)
(* store: the cache package (AddToCache, GetFromCache, DeleteFromCache,    *)
(* cleanupCacheIfNeeded, cleanupCacheRoutine), the object handlers         *)
(* (handleGet, handlePut, handleDelete, handleHead behind Handle), and the *)
(* middleware chain built by Router.Setup.                                 *)
(*                                                                         *)
(* Sizes are scaled: byte strings are short sequences of small numbers,    *)
(* and the two size thresholds of the cache package keep their order       *)
(* (0 < MinSizeForCompression < MaxCacheSize) with small values.  Time is  *)
(* counted in ticks of the cleanup ticker, and the entry lifetime is       *)
(* scaled to two ticks.                                                    *)
(***************************************************************************)
EXTENDS Integers, Sequences, FiniteSets, TLC

\* ------------------------------------------------------------------------
\* Bounds of the model
\* ------------------------------------------------------------------------
NumProcs == 2
MaxRequests == 3
MaxSeqRequests == 4
MaxChainRequests == 2
MaxMainRequests == 2
MaxTime == 3

\* ------------------------------------------------------------------------
\* Program constants (internal/cache/types.go), scaled
\* ------------------------------------------------------------------------
DefaultCacheDuration == 2
CleanupInterval == 1
MaxCacheSize == 8
MinSizeForCompression == 4

\* ------------------------------------------------------------------------
\* Byte strings and content types
\* ------------------------------------------------------------------------
\* A byte string is a sequence of numbers.  A content type is a sequence of
\* tokens, so that strings.HasPrefix is the prefix relation on sequences.
IsPrefix(pre, s) ==
    /\ Len(pre) <= Len(s)
    /\ \A i \in 1..Len(pre) : s[i] = pre[i]

CT_None == << >>
CT_TextPlain == <<"text/", "plain">>
CT_Octet == <<"application/", "octet-stream">>
CT_Json == <<"application/", "json">>
CT_Png == <<"image/", "png">>

compressibleTypes ==
    { <<"text/">>,
      <<"application/", "json">>,
      <<"application/", "javascript">>,
      <<"application/", "xml">>,
      <<"application/", "yaml">>,
      <<"image/", "svg">> }

\* Variant of ShouldCompress: the size is not looked at.
ShouldCompress_NoFloor(contentType, size) ==
    \E t \in compressibleTypes : IsPrefix(t, contentType)

ShouldCompress(contentType, size) ==
    IF size < MinSizeForCompression
    THEN FALSE
    ELSE \E t \in compressibleTypes : IsPrefix(t, contentType)

\* gzip, scaled: a one-byte magic header, the run-length coding of the
\* input as (byte, count) pairs, and a one-byte trailer holding the input
\* length (gzip's ISIZE).
GzMagic == 31

RECURSIVE RunLen(_, _)
RunLen(s, i) ==
    IF i < Len(s) /\ s[i + 1] = s[i] THEN 1 + RunLen(s, i + 1) ELSE 1

RECURSIVE Deflate(_, _)
Deflate(s, i) ==
    IF i > Len(s)
    THEN << >>
    ELSE LET n == RunLen(s, i) IN <<s[i], n>> \o Deflate(s, i + n)

\* Variant of Repeat: a run comes out one byte short.
RECURSIVE Repeat_Short(_, _)
Repeat_Short(b, n) ==
    IF n <= 1 THEN << >> ELSE <<b>> \o Repeat_Short(b, n - 1)

RECURSIVE Repeat(_, _)
Repeat(b, n) == IF n <= 0 THEN << >> ELSE <<b>> \o Repeat(b, n - 1)

RECURSIVE Inflate(_, _, _)
Inflate(z, i, last) ==
    IF i > last
    THEN << >>
    ELSE Repeat(z[i], z[i + 1]) \o Inflate(z, i + 2, last)

\* CompressData never fails on an in-memory buffer: err is always nil.
CompressData(data) ==
    [err |-> FALSE, data |-> <<GzMagic>> \o Deflate(data, 1) \o <<Len(data)>>]

DecompressData(z) ==
    IF /\ Len(z) >= 2
       /\ z[1] = GzMagic
       /\ (Len(z) - 2) % 2 = 0
       /\ \A i \in 2..(Len(z) - 1) : (i % 2 = 1) => z[i] > 0
    THEN LET out == Inflate(z, 2, Len(z) - 1) IN
         IF Len(out) = z[Len(z)]
         THEN [err |-> FALSE, data |-> out]
         ELSE [err |-> TRUE, data |-> << >>]
    ELSE [err |-> TRUE, data |-> << >>]

GetCacheKey(bucket, key) == <<bucket, key>>


\* ------------------------------------------------------------------------
\* Configuration read at startup
\* ------------------------------------------------------------------------
\* ALLOWED_BUCKETS = "public:read,private:all,inbox:write,vault:none";
\* the bucket "ghost" is not configured.
BucketAccess ==
    [public |-> "read", private |-> "all", inbox |-> "write", vault |-> "none"]

Buckets == {"public", "private", "inbox", "vault", "ghost"}
ObjKeys == {"a", ""}
Methods == {"GET", "HEAD", "PUT", "DELETE", "POST"}

\* ------------------------------------------------------------------------
\* Middleware chain
\* ------------------------------------------------------------------------
\* A handler is the sequence of its layers, outermost first.  Chain wraps h
\* in each middleware in the order given, so the last one given is the
\* outermost layer.
RECURSIVE ChainFrom(_, _, _)
ChainFrom(h, middleware, i) ==
    IF i > Len(middleware)
    THEN h
    ELSE ChainFrom(<<middleware[i]>> \o h, middleware, i + 1)

\* Variant of Chain: the first middleware given becomes the outermost.
Chain_FirstOutermost(h, middleware) == middleware \o h

Chain(h, middleware) == ChainFrom(h, middleware, 1)

RouterSetup == Chain(<<"mux">>, <<"WithValidation", "WithMetrics">>)

\* WithValidation: TRUE when the request is passed to next, FALSE when it is
\* answered 403.
WithValidation(config, bucket, method) ==
    IF bucket = ""
    THEN TRUE
    ELSE IF bucket \notin DOMAIN config
    THEN FALSE
    ELSE LET policy == config[bucket] IN
         CASE method \in {"GET", "HEAD"} ->
                  policy = "read" \/ policy = "all" \/ policy = "write"
           [] method \in {"PUT", "DELETE"} ->
                  policy = "write" \/ policy = "all"
           [] OTHER -> FALSE

\* Variant of Descend: WithValidation writes its 403 and then falls through
\* to next.ServeHTTP (a missing return).
Descend_NoReturn(h, i, r) ==
    [entered |-> SubSeq(h, i, Len(h)), verdict |-> "pipeline"]

\* The layers entered on the way in, and whether the innermost handler is
\* reached ("pipeline") or a layer answered by itself ("forbidden").
RECURSIVE Descend(_, _, _)
Descend(h, i, r) ==
    IF h[i] = "WithMetrics"
    THEN LET inner == Descend(h, i + 1, r) IN
         [entered |-> <<"WithMetrics">> \o inner.entered,
          verdict |-> inner.verdict]
    ELSE IF h[i] = "WithValidation"
    THEN IF WithValidation(BucketAccess, r.bucket, r.method)
         THEN LET inner == Descend(h, i + 1, r) IN
              [entered |-> <<"WithValidation">> \o inner.entered,
               verdict |-> inner.verdict]
         ELSE [entered |-> <<"WithValidation">>, verdict |-> "forbidden"]
    ELSE [entered |-> <<"mux">>, verdict |-> "pipeline"]

\* The event a layer logs when it is entered.
EnterEvent(layer) ==
    CASE layer = "WithMetrics" -> "metrics_start"
      [] layer = "WithValidation" -> "policy_check"
      [] OTHER -> "pipeline"

RECURSIVE EnterEvents(_, _)
EnterEvents(entered, i) ==
    IF i > Len(entered)
    THEN << >>
    ELSE <<EnterEvent(entered[i])>> \o EnterEvents(entered, i + 1)

\* The events logged on the way out: only WithMetrics has code after
\* next.ServeHTTP.
RECURSIVE LeaveEvents(_, _)
LeaveEvents(entered, i) ==
    IF i < 1
    THEN << >>
    ELSE (IF entered[i] = "WithMetrics" THEN <<"metrics_finish">> ELSE << >>)
         \o LeaveEvents(entered, i - 1)

\* statusCodeCounters holds counters for these codes only.
CountedCodes == {200, 201, 204, 400, 401, 403, 404, 500}


\* ------------------------------------------------------------------------
\* State
\* ------------------------------------------------------------------------
Procs == 1..NumProcs
Sweeper == 0
Threads == Procs \cup {Sweeper}
Free == -1

CacheKeys == {GetCacheKey(b, k) : b \in Buckets, k \in ObjKeys \ {""}}

NoEntry == [nil |-> TRUE]
NoObject == [nil |-> TRUE]

VARIABLES
    cache,       \* sync.Map: cache key -> *CacheEntry
    cacheSize,   \* int64 size counter
    cacheMux,    \* sync.Mutex: Free or the thread holding it
    store,       \* the backend object store: cache key -> object
    storeClock,  \* number of writes the backend has accepted
    now,         \* wall clock, in minutes
    pc,          \* thread -> position in its code
    req,         \* request process -> the request it is serving
    loc,         \* thread -> local variables
    resp,        \* request process -> the response written so far
    nreq,        \* requests started so far
    lastPut,     \* cache key -> the last PUT answered 200 (history)
    ticks,       \* ticker.C: TRUE when a tick waits in the channel
    hist,        \* the last completed requests (history)
    codec        \* a direct call of the codec: its payload and results

vars == <<cache, cacheSize, cacheMux, store, storeClock, now, pc, req, loc,
          resp, nreq, lastPut, ticks, hist, codec>>

cacheVars == <<cache, cacheSize, cacheMux>>

NoReq ==
    [method |-> "", bucket |-> "", key |-> "", acceptGzip |-> FALSE,
     contentType |-> CT_None, body |-> [kind |-> "raw", bytes |-> << >>],
     seenPut |-> [gen |-> 0, data |-> << >>]]

NoResp ==
    [status |-> 0, body |-> << >>, contentType |-> CT_None,
     contentEncoding |-> "", contentLength |-> 0, etag |-> << >>,
     lastModified |-> 0, error |-> "", fromCache |-> FALSE,
     entered |-> << >>, trace |-> << >>, counted |-> 0]

LocInit ==
    [dkey |-> << >>, dret |-> "", dentry |-> NoEntry, dfound |-> FALSE,
     entry |-> NoEntry, data |-> << >>, info |-> NoObject,
     input |-> [ContentType |-> CT_None, ContentEncoding |-> "",
                Data |-> << >>],
     newSize |-> 0, visited |-> {}, keysToDelete |-> << >>,
     rejected |-> FALSE, evicted |-> FALSE, gen |-> 0,
     swNow |-> 0]

Hello == <<1, 2>>
BigText == <<0, 0, 0, 0, 0, 0>>
Noise == <<1, 2, 1, 2, 1>>
Huge == <<3, 3, 3, 3, 3, 3, 3, 3, 3>>
HalfFull == <<4, 5, 4, 5>>
Third == <<7, 8, 9>>

ETagOf(data) == <<"etag", data>>

Object(data, contentType, lastModified) ==
    [data |-> data, contentType |-> contentType, etag |-> ETagOf(data),
     lastModified |-> lastModified]

\* The objects the backend holds when the process starts.
InitStore ==
    [k \in CacheKeys |->
        CASE k = GetCacheKey("public", "a") -> Object(BigText, CT_TextPlain, 0)
          [] k = GetCacheKey("private", "a") -> Object(Noise, CT_Octet, 0)
          [] OTHER -> NoObject]

\* The state after startup, with the given objects in the backend.  started
\* tells whether InitCache has been called: the cleanup routine then waits
\* for its first tick, and otherwise it does not exist.
InitServer(started, objects) ==
    /\ cache = [k \in CacheKeys |-> NoEntry]
    /\ cacheSize = 0
    /\ cacheMux = Free
    /\ store = objects
    /\ storeClock = 0
    /\ now = 0
    /\ pc = [t \in Threads |->
               IF t # Sweeper THEN "idle"
               ELSE IF started THEN "sw_wait" ELSE "sw_off"]
    /\ req = [p \in Procs |-> NoReq]
    /\ loc = [t \in Threads |-> LocInit]
    /\ resp = [p \in Procs |-> NoResp]
    /\ nreq = 0
    /\ lastPut = [k \in CacheKeys |-> [gen |-> 0, data |-> << >>]]
    /\ ticks = FALSE
    /\ hist = << >>

\* No direct call of the codec is made.
NoCodec ==
    [stage |-> "", x |-> << >>, z |-> << >>, zerr |-> FALSE,
     out |-> << >>, outerr |-> FALSE,
     contentType |-> CT_None, size |-> 0, should |-> FALSE]

InitState(started, objects) ==
    /\ InitServer(started, objects)
    /\ codec = NoCodec

\* The cache package with its cleanup routine started, as InitCache starts
\* it; SpecSeq and SpecChain leave the routine's steps out.
Init == InitState(TRUE, InitStore)

\* The server as main assembles it: main never calls InitCache.
InitMain == InitState(FALSE, InitStore)

\* The same server in front of a backend whose two objects are half of
\* MaxCacheSize and more than half of it; the first is a text that gzip
\* does not make smaller.
BurstStore ==
    [InitStore EXCEPT
        ![GetCacheKey("public", "a")] = Object(HalfFull, CT_TextPlain, 0)]

InitBurst == InitState(FALSE, BurstStore)

\* The same server in front of a backend with three small objects, of
\* which the cache has room for two.
EvictBuckets == {"public", "private", "inbox"}

EvictStore ==
    [k \in CacheKeys |->
        IF k \in {GetCacheKey(b, "a") : b \in EvictBuckets}
        THEN Object(Third, CT_Octet, 0)
        ELSE NoObject]

InitEvict == InitState(FALSE, EvictStore)

CacheKeyOf(p) == GetCacheKey(req[p].bucket, req[p].key)

\* ------------------------------------------------------------------------
\* Cache engine
\* ------------------------------------------------------------------------
\* Variant of IsFresh: an entry is still served at its expiry instant.
IsFresh_Inclusive(t, entry) == t <= entry.ExpiresAt

\* time.Now().Before(entry.ExpiresAt)
IsFresh(t, entry) == t < entry.ExpiresAt

\* now.After(entry.ExpiresAt) in cleanupCacheRoutine
SweepExpired(t, entry) == t > entry.ExpiresAt

\* What DeleteFromCache and cleanupCacheIfNeeded subtract for an entry.
SizeRemoved(entry) == entry.Size

\* Variant of NewEntry: the entry is stored before its etag is filled in.
NewEntry_Torn(data, contentType, size, lastModified, etag, t) ==
    LET try == ShouldCompress(contentType, size)
        c == IF try THEN CompressData(data) ELSE [err |-> TRUE, data |-> << >>]
        isCompressed == try /\ ~c.err /\ Len(c.data) < size
    IN  [Data |-> data,
         CompressedData |-> c.data,
         ContentType |-> contentType,
         Size |-> size,
         CompressedSize |-> Len(c.data),
         LastModified |-> lastModified,
         ETag |-> << >>,
         ExpiresAt |-> t + DefaultCacheDuration,
         IsCompressed |-> isCompressed]

\* The entry AddToCache builds, and the size it adds for it.
NewEntry(data, contentType, size, lastModified, etag, t) ==
    LET try == ShouldCompress(contentType, size)
        c == IF try THEN CompressData(data) ELSE [err |-> TRUE, data |-> << >>]
        isCompressed == try /\ ~c.err /\ Len(c.data) < size
    IN  [Data |-> data,
         CompressedData |-> c.data,
         ContentType |-> contentType,
         Size |-> size,
         CompressedSize |-> Len(c.data),
         LastModified |-> lastModified,
         ETag |-> etag,
         ExpiresAt |-> t + DefaultCacheDuration,
         IsCompressed |-> isCompressed]

FinalSize(entry) ==
    IF entry.IsCompressed THEN Len(entry.CompressedData) ELSE entry.Size

\* Variant of TooLarge: the bound is off by one.
TooLarge_OffByOne(data) == Len(data) > MaxCacheSize + 1

TooLarge(data) == Len(data) > MaxCacheSize

\* Variant of NeedsCleanup: every Put evicts.
NeedsCleanup_Always(size, newSize) == TRUE

NeedsCleanup(size, newSize) == size + newSize > MaxCacheSize


\* ---- DeleteFromCache(loc[t].dkey), returning to loc[t].dret ----
\* Variant of DeleteOk: the ok result is ignored.
DeleteOk_Ignored(entry) == TRUE

\* The ok result of cache.LoadAndDelete.
DeleteOk(entry) == entry # NoEntry

DFC_LoadAndDelete(t) ==
    /\ pc[t] = "dfc_lad"
    /\ LET k == loc[t].dkey IN
       IF DeleteOk(cache[k])
       THEN /\ cache' = [cache EXCEPT ![k] = NoEntry]
            /\ loc' = [loc EXCEPT ![t].dentry = cache[k], ![t].dfound = TRUE]
            /\ pc' = [pc EXCEPT ![t] = "dfc_lock"]
       ELSE /\ cache' = cache
            /\ loc' = [loc EXCEPT ![t].dfound = FALSE]
            /\ pc' = [pc EXCEPT ![t] = loc[t].dret]
    /\ UNCHANGED <<cacheSize, cacheMux, store, storeClock, now, req, resp, nreq,
                   lastPut, hist, ticks, codec>>

\* Variant of Unlock: DeleteFromCache returns with the mutex held.
Unlock_Forgotten(t) == t

\* cacheMux.Unlock() at the end of DeleteFromCache
Unlock(t) == Free

DFC_Lock(t) ==
    /\ pc[t] = "dfc_lock"
    /\ cacheMux = Free
    /\ cacheMux' = t
    /\ pc' = [pc EXCEPT ![t] = "dfc_sub"]
    /\ UNCHANGED <<cache, cacheSize, store, storeClock, now, req, loc, resp,
                   nreq, lastPut, hist, ticks, codec>>

DFC_Sub(t) ==
    /\ pc[t] = "dfc_sub"
    /\ cacheMux = t
    /\ cacheSize' = cacheSize - SizeRemoved(loc[t].dentry)
    /\ cacheMux' = Unlock(t)
    /\ pc' = [pc EXCEPT ![t] = loc[t].dret]
    /\ UNCHANGED <<cache, store, storeClock, now, req, loc, resp, nreq, lastPut,
                   hist, ticks, codec>>

\* ---- responses ----
\* sendResponse: the Content-Type header is Response.ContentType when that
\* is set and application/json otherwise, whatever the Headers map says.
SendResponse(r) ==
    [NoResp EXCEPT
        !.status = IF r.StatusCode # 0 THEN r.StatusCode ELSE 200,
        !.body = r.Body,
        !.contentType = IF r.ContentType # CT_None THEN r.ContentType
                        ELSE CT_Json,
        !.contentEncoding = r.ContentEncoding,
        !.contentLength = r.ContentLength,
        !.etag = r.ETag,
        !.lastModified = r.LastModified]

\* Variant of HandleError: the type switch has no case for *NotFoundError.
HandleError_NoNotFound(kind) ==
    [NoResp EXCEPT
        !.status = CASE kind = "ValidationError" -> 400
                     [] OTHER -> 500,
        !.contentType = CT_Json,
        !.error = kind]

\* handleError + sendError
HandleError(kind) ==
    [NoResp EXCEPT
        !.status = CASE kind = "NotFoundError" -> 404
                     [] kind = "ValidationError" -> 400
                     [] OTHER -> 500,
        !.contentType = CT_Json,
        !.error = kind]

Written(p, r) ==
    [r EXCEPT !.entered = resp[p].entered, !.trace = resp[p].trace]

\* Variant of GetHitResponse: a compressed entry is served compressed
\* whatever the request accepts.
GetHitResponse_IgnoreAccept(entry, acceptsGzip) ==
    LET gz == entry.IsCompressed /\ entry.CompressedData # << >>
        responseData == IF gz THEN entry.CompressedData ELSE entry.Data
    IN  [StatusCode |-> 200, Body |-> responseData,
         ContentType |-> entry.ContentType,
         ContentEncoding |-> IF gz THEN "gzip" ELSE "",
         ContentLength |-> Len(responseData),
         ETag |-> entry.ETag, LastModified |-> entry.LastModified]

\* handleGet, cache hit
GetHitResponse(entry, acceptsGzip) ==
    LET gz == acceptsGzip /\ entry.IsCompressed /\ entry.CompressedData # << >>
        responseData == IF gz THEN entry.CompressedData ELSE entry.Data
    IN  [StatusCode |-> 200, Body |-> responseData,
         ContentType |-> entry.ContentType,
         ContentEncoding |-> IF gz THEN "gzip" ELSE "",
         ContentLength |-> Len(responseData),
         ETag |-> entry.ETag, LastModified |-> entry.LastModified]

\* Variant of GetMissResponse: the compressed form is served without
\* comparing its length with the raw length.
GetMissResponse_NoSizeTest(data, info, acceptsGzip) ==
    LET c == CompressData(data)
        gz == /\ acceptsGzip
              /\ ShouldCompress(info.contentType, Len(data))
              /\ ~c.err
        responseData == IF gz THEN c.data ELSE data
    IN  [StatusCode |-> 200, Body |-> responseData,
         ContentType |-> info.contentType,
         ContentEncoding |-> IF gz THEN "gzip" ELSE "",
         ContentLength |-> Len(responseData),
         ETag |-> info.etag, LastModified |-> info.lastModified]

\* handleGet, cache miss, after AddToCache
GetMissResponse(data, info, acceptsGzip) ==
    LET c == CompressData(data)
        gz == /\ acceptsGzip
              /\ ShouldCompress(info.contentType, Len(data))
              /\ ~c.err
              /\ Len(c.data) < Len(data)
        responseData == IF gz THEN c.data ELSE data
    IN  [StatusCode |-> 200, Body |-> responseData,
         ContentType |-> info.contentType,
         ContentEncoding |-> IF gz THEN "gzip" ELSE "",
         ContentLength |-> Len(responseData),
         ETag |-> info.etag, LastModified |-> info.lastModified]

\* handleHead: metadata only; Response.ContentType is left empty.
HeadResponse(contentType, size, etag, lastModified) ==
    [StatusCode |-> 200, Body |-> << >>, ContentType |-> CT_None,
     ContentEncoding |-> "", ContentLength |-> size,
     ETag |-> etag, LastModified |-> lastModified]

EmptyResponse(code) ==
    [StatusCode |-> code, Body |-> << >>, ContentType |-> CT_None,
     ContentEncoding |-> "", ContentLength |-> 0,
     ETag |-> << >>, LastModified |-> 0]

\* Variant of MissPc: handleHead fetches the object on a miss as handleGet
\* does.
MissPc_AlwaysFetch(p) == "hg_fetch"

\* Where a handler continues after GetFromCache reported a miss: handleGet
\* fetches the object, handleHead asks the backend for its metadata.
MissPc(p) == IF req[p].method = "GET" THEN "hg_fetch" ELSE "hh_stat"

\* Variant of GetFromCache: a hit renews the entry's expiry.
GetFromCache_Touch(p) ==
    /\ pc[p] = "gfc_load"
    /\ LET k == CacheKeyOf(p)
           entry == cache[k]
       IN
       IF entry = NoEntry
       THEN /\ pc' = [pc EXCEPT ![p] = MissPc(p)]
            /\ loc' = [loc EXCEPT ![p].entry = NoEntry]
            /\ resp' = resp
            /\ cache' = cache
       ELSE IF IsFresh(now, entry)
       THEN /\ pc' = [pc EXCEPT ![p] = "respond"]
            /\ loc' = [loc EXCEPT ![p].entry = entry]
            /\ resp' = [resp EXCEPT ![p] =
                 [Written(p, SendResponse(
                     IF req[p].method = "GET"
                     THEN GetHitResponse(entry, req[p].acceptGzip)
                     ELSE HeadResponse(entry.ContentType, entry.Size,
                                       entry.ETag, entry.LastModified)))
                  EXCEPT !.fromCache = TRUE]]
            /\ cache' = [cache EXCEPT
                           ![k].ExpiresAt = now + DefaultCacheDuration]
       ELSE /\ pc' = [pc EXCEPT ![p] = "dfc_lad"]
            /\ loc' = [loc EXCEPT ![p].entry = entry, ![p].dkey = k,
                                  ![p].dret = MissPc(p)]
            /\ resp' = resp
            /\ cache' = cache
    /\ UNCHANGED <<cacheSize, cacheMux, store, storeClock, now, req, nreq,
                   lastPut, hist, ticks, codec>>

\* ---- GetFromCache(cacheKey), called by handleGet and handleHead ----
GetFromCache(p) ==
    /\ pc[p] = "gfc_load"
    /\ LET k == CacheKeyOf(p)
           entry == cache[k]
       IN
       IF entry = NoEntry
       THEN /\ pc' = [pc EXCEPT ![p] = MissPc(p)]
            /\ loc' = [loc EXCEPT ![p].entry = NoEntry]
            /\ resp' = resp
       ELSE IF IsFresh(now, entry)
       THEN /\ pc' = [pc EXCEPT ![p] = "respond"]
            /\ loc' = [loc EXCEPT ![p].entry = entry]
            /\ resp' = [resp EXCEPT ![p] =
                 [Written(p, SendResponse(
                     IF req[p].method = "GET"
                     THEN GetHitResponse(entry, req[p].acceptGzip)
                     ELSE HeadResponse(entry.ContentType, entry.Size,
                                       entry.ETag, entry.LastModified)))
                  EXCEPT !.fromCache = TRUE]]
       ELSE /\ pc' = [pc EXCEPT ![p] = "dfc_lad"]
            /\ loc' = [loc EXCEPT ![p].entry = entry, ![p].dkey = k,
                                  ![p].dret = MissPc(p)]
            /\ resp' = resp
    /\ UNCHANGED <<cache, cacheSize, cacheMux, store, storeClock, now, req,
                   nreq, lastPut, hist, ticks, codec>>

\* Variant of GetReply: a Put the cache rejected fails the request.
GetReply_RejectFails(p) ==
    IF Len(loc[p].data) > MaxCacheSize
    THEN Written(p, HandleError("error"))
    ELSE Written(p, SendResponse(
             GetMissResponse(loc[p].data, loc[p].info, req[p].acceptGzip)))

\* handleGet after AddToCache has returned: the reply built from the
\* fetched object.
GetReply(p) ==
    Written(p, SendResponse(
        GetMissResponse(loc[p].data, loc[p].info, req[p].acceptGzip)))

\* ---- AddToCache(cacheKey, data, info...) called by handleGet ----
\* Lock, the size check, the compression attempt and the decision of
\* cleanupCacheIfNeeded.  A rejected Put unlocks and returns at once.
ATC_Begin(p) ==
    /\ pc[p] = "atc_lock"
    /\ cacheMux = Free
    /\ IF TooLarge(loc[p].data)
       THEN /\ cacheMux' = Free
            /\ loc' = [loc EXCEPT ![p].rejected = TRUE]
            /\ pc' = [pc EXCEPT ![p] = "respond"]
            /\ resp' = [resp EXCEPT ![p] = GetReply(p)]
       ELSE LET e == NewEntry(loc[p].data, loc[p].info.contentType,
                              Len(loc[p].data), loc[p].info.lastModified,
                              loc[p].info.etag, now)
            IN  /\ cacheMux' = p
                /\ loc' = [loc EXCEPT ![p].newSize = FinalSize(e),
                                      ![p].visited = {},
                                      ![p].keysToDelete = << >>]
                /\ pc' = [pc EXCEPT ![p] =
                            IF NeedsCleanup(cacheSize, FinalSize(e))
                            THEN "cln_range" ELSE "atc_store"]
                /\ resp' = resp
    /\ UNCHANGED <<cache, cacheSize, store, storeClock, now, req, nreq, lastPut,
                   hist, ticks, codec>>

\* cleanupCacheIfNeeded: one callback of cache.Range, or the end of the
\* range when no unvisited key is left.
CLN_Range(p) ==
    /\ pc[p] = "cln_range"
    /\ cacheMux = p
    /\ LET todo == {k \in CacheKeys \ loc[p].visited : cache[k] # NoEntry} IN
       IF todo = {}
       THEN /\ pc' = [pc EXCEPT ![p] = "cln_delete"]
            /\ UNCHANGED <<cacheSize, loc, ticks>>
       ELSE \E k \in todo :
            /\ cacheSize' = cacheSize - SizeRemoved(cache[k])
            /\ loc' = [loc EXCEPT
                         ![p].visited = @ \cup {k},
                         ![p].keysToDelete = Append(@, k),
                         ![p].evicted = TRUE]
            /\ pc' = [pc EXCEPT ![p] =
                        IF NeedsCleanup(cacheSize', loc[p].newSize)
                        THEN "cln_range" ELSE "cln_delete"]
    /\ UNCHANGED <<cache, cacheMux, store, storeClock, now, req, resp, nreq,
                   lastPut, hist, ticks, codec>>

\* Variant of CLN_Delete: the eviction removes each collected key with
\* DeleteFromCache, which locks cacheMux, instead of cache.Delete.
CLN_Delete_ViaDeleteFromCache(p) ==
    /\ pc[p] = "cln_delete"
    /\ cacheMux = p
    /\ IF loc[p].keysToDelete = << >>
       THEN /\ pc' = [pc EXCEPT ![p] = "atc_store"]
            /\ UNCHANGED <<cache, loc, ticks>>
       ELSE /\ cache' = [cache EXCEPT ![Head(loc[p].keysToDelete)] = NoEntry]
            /\ loc' = [loc EXCEPT
                         ![p].keysToDelete = Tail(@),
                         ![p].dentry = cache[Head(loc[p].keysToDelete)],
                         ![p].dret = "cln_delete"]
            /\ pc' = [pc EXCEPT ![p] = "dfc_lock"]
    /\ UNCHANGED <<cacheSize, cacheMux, store, storeClock, now, req, resp, nreq,
                   lastPut, hist, ticks, codec>>

\* cleanupCacheIfNeeded: cache.Delete(key) for the next collected key.
CLN_Delete(p) ==
    /\ pc[p] = "cln_delete"
    /\ cacheMux = p
    /\ IF loc[p].keysToDelete = << >>
       THEN /\ pc' = [pc EXCEPT ![p] = "atc_store"]
            /\ UNCHANGED <<cache, loc, ticks>>
       ELSE /\ cache' = [cache EXCEPT ![Head(loc[p].keysToDelete)] = NoEntry]
            /\ loc' = [loc EXCEPT ![p].keysToDelete = Tail(@)]
            /\ pc' = pc
    /\ UNCHANGED <<cacheSize, cacheMux, store, storeClock, now, req, resp, nreq,
                   lastPut, hist, ticks, codec>>

\* cache.Store, cacheSize += finalSize, and the deferred Unlock.
ATC_Store(p) ==
    /\ pc[p] = "atc_store"
    /\ cacheMux = p
    /\ LET e == NewEntry(loc[p].data, loc[p].info.contentType,
                         Len(loc[p].data), loc[p].info.lastModified,
                         loc[p].info.etag, now)
       IN  /\ cache' = [cache EXCEPT ![CacheKeyOf(p)] = e]
           /\ cacheSize' = cacheSize + FinalSize(e)
    /\ cacheMux' = Free
    /\ pc' = [pc EXCEPT ![p] = "respond"]
    /\ resp' = [resp EXCEPT ![p] = GetReply(p)]
    /\ UNCHANGED <<store, storeClock, now, req, loc, nreq, lastPut, hist, ticks,
                   codec>>


\* ---- backend calls of the handlers ----
\* handleGet, cache miss: GetObject + Stat + ReadAll.  The backend answers
\* with the object, with NoSuchKey, or fails.
Fetch(p) ==
    /\ pc[p] = "hg_fetch"
    /\ LET k == CacheKeyOf(p) IN
       \E fails \in BOOLEAN :
          IF fails
          THEN /\ resp' = [resp EXCEPT ![p] = Written(p, HandleError("error"))]
               /\ pc' = [pc EXCEPT ![p] = "respond"]
               /\ loc' = loc
          ELSE IF store[k] = NoObject
          THEN /\ resp' = [resp EXCEPT ![p] =
                              Written(p, HandleError("NotFoundError"))]
               /\ pc' = [pc EXCEPT ![p] = "respond"]
               /\ loc' = loc
          ELSE /\ resp' = resp
               /\ pc' = [pc EXCEPT ![p] = "atc_lock"]
               /\ loc' = [loc EXCEPT ![p].data = store[k].data,
                                     ![p].info = store[k]]
    /\ UNCHANGED <<cache, cacheSize, cacheMux, store, storeClock, now, req,
                   nreq, lastPut, hist, ticks, codec>>

\* handleHead, cache miss: StatObject.
StatObject(p) ==
    /\ pc[p] = "hh_stat"
    /\ LET k == CacheKeyOf(p) IN
       \E fails \in BOOLEAN :
          resp' = [resp EXCEPT ![p] = Written(p,
                     IF fails THEN HandleError("error")
                     ELSE IF store[k] = NoObject
                     THEN HandleError("NotFoundError")
                     ELSE SendResponse(HeadResponse(
                              store[k].contentType, Len(store[k].data),
                              store[k].etag, store[k].lastModified)))]
    /\ pc' = [pc EXCEPT ![p] = "respond"]
    /\ UNCHANGED <<cache, cacheSize, cacheMux, store, storeClock, now, req, loc,
                   nreq, lastPut, hist, ticks, codec>>

\* Variant of PutData: input.Data is forwarded as it was sent.
PutData_AsSent(input) == [err |-> FALSE, data |-> input.Data]

\* handlePut: the bytes to forward, gunzipped when the input declares gzip.
PutData(input) ==
    IF input.ContentEncoding = "gzip"
    THEN DecompressData(input.Data)
    ELSE [err |-> FALSE, data |-> input.Data]

\* Variant of PutContentType: every object is stored as a binary one.
PutContentType_Binary(input) == CT_Octet

\* handlePut: the content type to forward, defaulted when the input has
\* none.
PutContentType(input) ==
    IF input.ContentType = CT_None THEN CT_Octet ELSE input.ContentType

\* handlePut after DeleteFromCache: default content type, optional gunzip
\* of input.Data, then PutObject.
PutObject(p) ==
    /\ pc[p] = "hp_store"
    /\ LET k == CacheKeyOf(p)
           input == loc[p].input
           contentType == PutContentType(input)
           d == PutData(input)
       IN
       IF d.err
       THEN /\ resp' = [resp EXCEPT ![p] =
                           Written(p, HandleError("ValidationError"))]
            /\ UNCHANGED <<store, storeClock, loc, ticks>>
       ELSE \E fails \in BOOLEAN :
            IF fails
            THEN /\ resp' = [resp EXCEPT ![p] =
                                Written(p, HandleError("error"))]
                 /\ UNCHANGED <<store, storeClock, loc, ticks>>
            ELSE /\ storeClock' = storeClock + 1
                 /\ store' = [store EXCEPT ![k] =
                                Object(d.data, contentType, storeClock + 1)]
                 /\ loc' = [loc EXCEPT ![p].gen = storeClock + 1,
                                       ![p].data = d.data]
                 /\ resp' = [resp EXCEPT ![p] =
                                Written(p, SendResponse(EmptyResponse(200)))]
    /\ pc' = [pc EXCEPT ![p] = "respond"]
    /\ UNCHANGED <<cache, cacheSize, cacheMux, now, req, nreq, lastPut, hist,
                   ticks, codec>>

\* What the backend can answer to the remove of key k: done (also for an
\* object it does not hold), a failure, or, for an object it does not hold,
\* an error response that says so (NoSuchKey, NoSuchBucket), which the
\* client returns as err like any other.
RemoveOutcomes(k) ==
    {"ok", "error"} \cup (IF store[k] = NoObject THEN {"NoSuchKey"} ELSE {})

\* handleDelete after DeleteFromCache: RemoveObject.  Every err is wrapped
\* with fmt.Errorf and returned, whatever the backend's error code.
RemoveObject(p) ==
    /\ pc[p] = "hd_remove"
    /\ LET k == CacheKeyOf(p) IN
       \E outcome \in RemoveOutcomes(k) :
          IF outcome # "ok"
          THEN /\ resp' = [resp EXCEPT ![p] =
                   Written(p, HandleError(IF outcome = "error" THEN "error"
                                          ELSE "wrapped NoSuchKey"))]
               /\ store' = store
          ELSE /\ resp' = [resp EXCEPT ![p] =
                              Written(p, SendResponse(EmptyResponse(204)))]
               /\ store' = [store EXCEPT ![k] = NoObject]
    /\ pc' = [pc EXCEPT ![p] = "respond"]
    /\ UNCHANGED <<cache, cacheSize, cacheMux, storeClock, now, req, loc, nreq,
                   lastPut, hist, ticks, codec>>


\* ------------------------------------------------------------------------
\* Requests
\* ------------------------------------------------------------------------
RawBody(bytes) == [kind |-> "raw", bytes |-> bytes]
JsonBody(contentType, contentEncoding, data) ==
    [kind |-> "json",
     input |-> [ContentType |-> contentType,
                ContentEncoding |-> contentEncoding, Data |-> data]]

BodyLen(body) == IF body.kind = "json" THEN 1 ELSE Len(body.bytes)

ZeroInput == [ContentType |-> CT_None, ContentEncoding |-> "", Data |-> << >>]

Request(method, bucket, key, acceptGzip, contentType, body) ==
    [method |-> method, bucket |-> bucket, key |-> key,
     acceptGzip |-> acceptGzip, contentType |-> contentType, body |-> body,
     seenPut |-> [gen |-> 0, data |-> << >>]]

\* Content-Type header and body of the PUT requests tried.
PutPayloads ==
    { <<CT_TextPlain, RawBody(Hello)>>,
      <<CT_Json, RawBody(Hello)>>,
      <<CT_Json, JsonBody(CT_TextPlain, "", Hello)>>,
      <<CT_Json, JsonBody(CT_TextPlain, "gzip", CompressData(BigText).data)>>,
      <<CT_Json, JsonBody(CT_None, "gzip", Hello)>>,
      <<CT_Json, JsonBody(CT_Octet, "", Huge)>> }

RequestsOn(buckets, keys, methods, payloads) ==
    {Request("GET", b, k, g, CT_None, RawBody(<< >>)) :
        b \in buckets, k \in keys, g \in BOOLEAN}
    \cup {Request(m, b, k, FALSE, CT_None, RawBody(<< >>)) :
        m \in {"HEAD", "DELETE", "POST"}, b \in buckets, k \in keys}
    \cup {Request("PUT", b, k, FALSE, pl[1], pl[2]) :
        b \in buckets, k \in keys, pl \in payloads}

\* Every method on every bucket: the requests of SpecChain.
AllRequests == {r \in RequestsOn(Buckets, ObjKeys, Methods, PutPayloads) :
                   r.method \in Methods}

\* The requests of SpecSeq: every PUT payload on one object, and the GET of
\* a second one.
SeqRequests ==
    {r \in RequestsOn({"private"}, {"a"}, Methods, PutPayloads) :
        r.method # "POST"}
    \cup {Request("GET", "public", "a", TRUE, CT_None, RawBody(<< >>))}

\* The requests of Spec: two objects, served concurrently.
Requests ==
    {r \in RequestsOn({"private"}, {"a"}, Methods,
                      { <<CT_TextPlain, RawBody(Hello)>>,
                        <<CT_Json, JsonBody(CT_Octet, "", Huge)>> }) :
        r.method # "POST" /\ ~r.acceptGzip}
    \cup {Request("GET", "public", "a", TRUE, CT_None, RawBody(<< >>))}

\* The requests of SpecBurst: plain GETs of two objects.
BurstRequests ==
    {r \in RequestsOn({"public", "private"}, {"a"}, {"GET"}, {}) :
        r.method = "GET" /\ ~r.acceptGzip}

\* The requests of SpecEvict: plain GETs of three objects.
EvictRequests ==
    {r \in RequestsOn(EvictBuckets, {"a"}, {"GET"}, {}) :
        r.method = "GET" /\ ~r.acceptGzip}

\* ------------------------------------------------------------------------
\* The composed handler, from the arrival of a request to its first access
\* to shared state
\* ------------------------------------------------------------------------
\* Variant of RouteRequest: handlePut goes to the backend without
\* invalidating the cache entry first.
RouteRequest_NoInvalidate(r) ==
    IF r.method \notin {"GET", "PUT", "DELETE", "HEAD"}
    THEN [next |-> "respond", error |-> "MethodNotAllowed", input |-> ZeroInput]
    ELSE LET decode == /\ r.method = "PUT"
                       /\ BodyLen(r.body) > 0
                       /\ r.contentType = CT_Json
         IN
         IF decode /\ r.body.kind # "json"
         THEN [next |-> "respond", error |-> "DecodeError", input |-> ZeroInput]
         ELSE LET input == IF decode THEN r.body.input ELSE ZeroInput IN
              IF r.bucket = "" \/ r.key = ""
              THEN [next |-> "respond", error |-> "ValidationError",
                    input |-> input]
              ELSE [next |-> CASE r.method = "GET" -> "gfc_load"
                               [] r.method = "HEAD" -> "gfc_load"
                               [] r.method = "PUT" -> "hp_store"
                               [] OTHER -> "dfc_lad",
                    error |-> "", input |-> input]

\* Variant of RouteRequest: the path check tests the bucket only.
RouteRequest_BucketOnly(r) ==
    IF r.method \notin {"GET", "PUT", "DELETE", "HEAD"}
    THEN [next |-> "respond", error |-> "MethodNotAllowed", input |-> ZeroInput]
    ELSE LET decode == /\ r.method = "PUT"
                       /\ BodyLen(r.body) > 0
                       /\ r.contentType = CT_Json
         IN
         IF decode /\ r.body.kind # "json"
         THEN [next |-> "respond", error |-> "DecodeError", input |-> ZeroInput]
         ELSE LET input == IF decode THEN r.body.input ELSE ZeroInput IN
              IF r.bucket = ""
              THEN [next |-> "respond", error |-> "ValidationError",
                    input |-> input]
              ELSE [next |-> CASE r.method = "GET" -> "gfc_load"
                               [] r.method = "HEAD" -> "gfc_load"
                               [] r.method = "PUT" -> "dfc_lad"
                               [] OTHER -> "dfc_lad",
                    error |-> "", input |-> input]

\* routeRequest + Handle + the path check that opens every handler:
\* where the request goes next, or the error it is answered with.
RouteRequest(r) ==
    IF r.method \notin {"GET", "PUT", "DELETE", "HEAD"}
    THEN [next |-> "respond", error |-> "MethodNotAllowed", input |-> ZeroInput]
    ELSE LET decode == /\ r.method = "PUT"
                       /\ BodyLen(r.body) > 0
                       /\ r.contentType = CT_Json
         IN
         IF decode /\ r.body.kind # "json"
         THEN [next |-> "respond", error |-> "DecodeError", input |-> ZeroInput]
         ELSE LET input == IF decode THEN r.body.input ELSE ZeroInput IN
              IF r.bucket = "" \/ r.key = ""
              THEN [next |-> "respond", error |-> "ValidationError",
                    input |-> input]
              ELSE [next |-> CASE r.method = "GET" -> "gfc_load"
                               [] r.method = "HEAD" -> "gfc_load"
                               [] r.method = "PUT" -> "dfc_lad"
                               [] OTHER -> "dfc_lad",
                    error |-> "", input |-> input]

ErrorReply(error) ==
    CASE error = "Forbidden" ->
             [NoResp EXCEPT !.status = 403, !.error = error]
      [] error = "MethodNotAllowed" ->
             [NoResp EXCEPT !.status = 405, !.error = error]
      [] error = "DecodeError" ->
             [NoResp EXCEPT !.status = 400, !.error = error,
                            !.contentType = CT_Json]
      [] OTHER -> HandleError(error)

StartReq(p, R, limit, sequential) ==
    /\ pc[p] = "idle"
    /\ nreq < limit
    /\ sequential => \A q \in Procs : pc[q] = "idle"
    /\ \E r \in R :
       LET d == Descend(RouterSetup, 1, r)
           route == IF d.verdict = "pipeline" THEN RouteRequest(r)
                    ELSE [next |-> "respond", error |-> "Forbidden",
                          input |-> ZeroInput]
           k == GetCacheKey(r.bucket, r.key)
           base == IF route.error = "" THEN NoResp ELSE ErrorReply(route.error)
       IN
       /\ req' = [req EXCEPT ![p] =
                    [r EXCEPT !.seenPut = IF k \in CacheKeys
                                          THEN lastPut[k]
                                          ELSE r.seenPut]]
       /\ resp' = [resp EXCEPT ![p] =
                     [base EXCEPT !.entered = d.entered,
                                  !.trace = EnterEvents(d.entered, 1)]]
       /\ loc' = [loc EXCEPT ![p] =
                     [LocInit EXCEPT
                        !.input = route.input,
                        !.dkey = IF route.next = "dfc_lad" THEN k ELSE << >>,
                        !.dret = CASE route.next # "dfc_lad" -> ""
                                   [] r.method = "PUT" -> "hp_store"
                                   [] OTHER -> "hd_remove"]]
       /\ pc' = [pc EXCEPT ![p] = route.next]
    /\ nreq' = nreq + 1
    /\ UNCHANGED <<cache, cacheSize, cacheMux, store, storeClock, now, lastPut,
                   hist, ticks, codec>>

\* The way out through the layers entered: WithMetrics reads the status its
\* response writer captured and counts it.
Respond(p) ==
    /\ pc[p] = "respond"
    /\ resp' = [resp EXCEPT
                  ![p].trace = @ \o LeaveEvents(resp[p].entered,
                                                Len(resp[p].entered)),
                  ![p].counted =
                      IF \E i \in 1..Len(resp[p].entered) :
                             resp[p].entered[i] = "WithMetrics"
                      THEN (IF resp[p].status \in CountedCodes
                            THEN resp[p].status ELSE 0)
                      ELSE 0]
    /\ lastPut' = IF req[p].method = "PUT" /\ resp[p].status = 200
                  THEN [lastPut EXCEPT ![CacheKeyOf(p)] =
                           [gen |-> loc[p].gen, data |-> loc[p].data]]
                  ELSE lastPut
    /\ pc' = [pc EXCEPT ![p] = "done"]
    /\ UNCHANGED <<cache, cacheSize, cacheMux, store, storeClock, now, req, loc,
                   nreq, hist, ticks, codec>>

HistLen == 2

Summary(p) ==
    [method |-> req[p].method, ckey |-> CacheKeyOf(p),
     reqContentType |-> req[p].contentType, reqBody |-> req[p].body,
     status |-> resp[p].status, body |-> resp[p].body,
     dfound |-> loc[p].dfound]

Remember(h, e) ==
    IF Len(h) < HistLen THEN Append(h, e) ELSE Append(Tail(h), e)

FinishReq(p, sequential) ==
    /\ pc[p] = "done"
    /\ hist' = IF sequential THEN Remember(hist, Summary(p)) ELSE hist
    /\ pc' = [pc EXCEPT ![p] = "idle"]
    /\ req' = [req EXCEPT ![p] = NoReq]
    /\ resp' = [resp EXCEPT ![p] = NoResp]
    /\ loc' = [loc EXCEPT ![p] = LocInit]
    /\ UNCHANGED <<cache, cacheSize, cacheMux, store, storeClock, now, nreq,
                   lastPut, ticks, codec>>

\* ------------------------------------------------------------------------
\* Time and the cleanup routine
\* ------------------------------------------------------------------------
\* The clock advances by one tick; the ticker drops a tick when the
\* previous one has not been taken from its channel.
Tick ==
    /\ now < MaxTime
    /\ now' = now + 1
    /\ ticks' = TRUE
    /\ UNCHANGED <<cache, cacheSize, cacheMux, store, storeClock, pc, req, loc,
                   resp, nreq, lastPut, hist, codec>>

\* cleanupCacheRoutine takes a tick: now := time.Now() and cache.Range
\* begins.
SW_Start ==
    /\ pc[Sweeper] = "sw_wait"
    /\ ticks
    /\ ticks' = FALSE
    /\ pc' = [pc EXCEPT ![Sweeper] = "sw_range"]
    /\ loc' = [loc EXCEPT ![Sweeper] = [LocInit EXCEPT !.swNow = now]]
    /\ UNCHANGED <<cache, cacheSize, cacheMux, store, storeClock, now, req,
                   resp, nreq, lastPut, hist, codec>>

\* One callback of cache.Range in cleanupCacheRoutine, or its end.
SW_Range ==
    /\ pc[Sweeper] = "sw_range"
    /\ LET todo == {k \in CacheKeys \ loc[Sweeper].visited :
                       cache[k] # NoEntry}
       IN
       IF todo = {}
       THEN /\ pc' = [pc EXCEPT ![Sweeper] = "sw_wait"]
            /\ loc' = [loc EXCEPT ![Sweeper] = LocInit]
       ELSE \E k \in todo :
            IF SweepExpired(loc[Sweeper].swNow, cache[k])
            THEN /\ pc' = [pc EXCEPT ![Sweeper] = "dfc_lad"]
                 /\ loc' = [loc EXCEPT ![Sweeper].visited = @ \cup {k},
                                       ![Sweeper].dkey = k,
                                       ![Sweeper].dret = "sw_range"]
            ELSE /\ pc' = pc
                 /\ loc' = [loc EXCEPT ![Sweeper].visited = @ \cup {k}]
    /\ UNCHANGED <<cache, cacheSize, cacheMux, store, storeClock, now, req,
                   resp, nreq, lastPut, ticks, hist, codec>>

\* ------------------------------------------------------------------------
\* Specifications
\* ------------------------------------------------------------------------
SeqProcs == {1}

Start(p) == StartReq(p, Requests, MaxRequests, FALSE)
Finish(p) == FinishReq(p, FALSE)
StartSeq(p) == StartReq(p, SeqRequests, MaxSeqRequests, TRUE)
FinishSeq(p) == FinishReq(p, TRUE)
StartChain(p) == StartReq(p, AllRequests, MaxChainRequests, TRUE)

Next ==
    \/ \E p \in Procs : Start(p)
    \/ \E p \in Procs : GetFromCache(p)
    \/ \E t \in Threads : DFC_LoadAndDelete(t)
    \/ \E t \in Threads : DFC_Lock(t)
    \/ \E t \in Threads : DFC_Sub(t)
    \/ \E p \in Procs : Fetch(p)
    \/ \E p \in Procs : ATC_Begin(p)
    \/ \E p \in Procs : CLN_Range(p)
    \/ \E p \in Procs : CLN_Delete(p)
    \/ \E p \in Procs : ATC_Store(p)
    \/ \E p \in Procs : StatObject(p)
    \/ \E p \in Procs : PutObject(p)
    \/ \E p \in Procs : RemoveObject(p)
    \/ \E p \in Procs : Respond(p)
    \/ \E p \in Procs : Finish(p)
    \/ Tick
    \/ SW_Start
    \/ SW_Range

Spec == Init /\ [][Next]_vars

NextSeq ==
    \/ \E p \in SeqProcs : StartSeq(p)
    \/ \E p \in Procs : GetFromCache(p)
    \/ \E t \in Threads : DFC_LoadAndDelete(t)
    \/ \E t \in Threads : DFC_Lock(t)
    \/ \E t \in Threads : DFC_Sub(t)
    \/ \E p \in Procs : Fetch(p)
    \/ \E p \in Procs : ATC_Begin(p)
    \/ \E p \in Procs : CLN_Range(p)
    \/ \E p \in Procs : CLN_Delete(p)
    \/ \E p \in Procs : ATC_Store(p)
    \/ \E p \in Procs : StatObject(p)
    \/ \E p \in Procs : PutObject(p)
    \/ \E p \in Procs : RemoveObject(p)
    \/ \E p \in Procs : Respond(p)
    \/ \E p \in Procs : FinishSeq(p)
    \/ Tick

SpecSeq == Init /\ [][NextSeq]_vars

NextChain ==
    \/ \E p \in SeqProcs : StartChain(p)
    \/ \E p \in Procs : GetFromCache(p)
    \/ \E t \in Threads : DFC_LoadAndDelete(t)
    \/ \E t \in Threads : DFC_Lock(t)
    \/ \E t \in Threads : DFC_Sub(t)
    \/ \E p \in Procs : Fetch(p)
    \/ \E p \in Procs : ATC_Begin(p)
    \/ \E p \in Procs : CLN_Range(p)
    \/ \E p \in Procs : CLN_Delete(p)
    \/ \E p \in Procs : ATC_Store(p)
    \/ \E p \in Procs : StatObject(p)
    \/ \E p \in Procs : PutObject(p)
    \/ \E p \in Procs : RemoveObject(p)
    \/ \E p \in Procs : Respond(p)
    \/ \E p \in Procs : Finish(p)
    \/ Tick

SpecChain == Init /\ [][NextChain]_vars

\* The server as main starts it, serving one request at a time.  The
\* process keeps running: a step that can be taken is eventually taken.
StartMain(p) == StartReq(p, SeqRequests, MaxMainRequests, TRUE)

NextMain ==
    \/ \E p \in SeqProcs : StartMain(p)
    \/ \E p \in Procs : GetFromCache(p)
    \/ \E t \in Threads : DFC_LoadAndDelete(t)
    \/ \E t \in Threads : DFC_Lock(t)
    \/ \E t \in Threads : DFC_Sub(t)
    \/ \E p \in Procs : Fetch(p)
    \/ \E p \in Procs : ATC_Begin(p)
    \/ \E p \in Procs : CLN_Range(p)
    \/ \E p \in Procs : CLN_Delete(p)
    \/ \E p \in Procs : ATC_Store(p)
    \/ \E p \in Procs : StatObject(p)
    \/ \E p \in Procs : PutObject(p)
    \/ \E p \in Procs : RemoveObject(p)
    \/ \E p \in Procs : Respond(p)
    \/ \E p \in Procs : Finish(p)
    \/ Tick

SpecMain == InitMain /\ [][NextMain]_vars /\ WF_vars(NextMain)

\* The server as main starts it, serving GETs concurrently.
StartBurst(p) == StartReq(p, BurstRequests, MaxRequests, FALSE)

NextBurst ==
    \/ \E p \in Procs : StartBurst(p)
    \/ \E p \in Procs : GetFromCache(p)
    \/ \E t \in Threads : DFC_LoadAndDelete(t)
    \/ \E t \in Threads : DFC_Lock(t)
    \/ \E t \in Threads : DFC_Sub(t)
    \/ \E p \in Procs : Fetch(p)
    \/ \E p \in Procs : ATC_Begin(p)
    \/ \E p \in Procs : CLN_Range(p)
    \/ \E p \in Procs : CLN_Delete(p)
    \/ \E p \in Procs : ATC_Store(p)
    \/ \E p \in Procs : Respond(p)
    \/ \E p \in Procs : Finish(p)
    \/ Tick

SpecBurst == InitBurst /\ [][NextBurst]_vars

\* The server as main starts it, serving GETs of three objects one at a
\* time.
MaxEvictRequests == 4

StartEvict(p) == StartReq(p, EvictRequests, MaxEvictRequests, TRUE)

NextEvict ==
    \/ \E p \in SeqProcs : StartEvict(p)
    \/ \E p \in Procs : GetFromCache(p)
    \/ \E t \in Threads : DFC_LoadAndDelete(t)
    \/ \E t \in Threads : DFC_Lock(t)
    \/ \E t \in Threads : DFC_Sub(t)
    \/ \E p \in Procs : Fetch(p)
    \/ \E p \in Procs : ATC_Begin(p)
    \/ \E p \in Procs : CLN_Range(p)
    \/ \E p \in Procs : CLN_Delete(p)
    \/ \E p \in Procs : ATC_Store(p)
    \/ \E p \in Procs : Respond(p)
    \/ \E p \in Procs : FinishSeq(p)
    \/ Tick

SpecEvict == InitEvict /\ [][NextEvict]_vars

\* ------------------------------------------------------------------------
\* The codec called directly: CompressData on a payload, then
\* DecompressData on what it returned.
\* ------------------------------------------------------------------------
MaxPayloadLen == 4
MaxByte == 2

CodecPayloads ==
    UNION {[1..n -> 0..MaxByte] : n \in 0..MaxPayloadLen}

InitCodec ==
    /\ InitServer(FALSE, InitStore)
    /\ \E x \in CodecPayloads :
          codec = [NoCodec EXCEPT !.stage = "compress", !.x = x]

serverVars == <<cache, cacheSize, cacheMux, store, storeClock, now, pc, req,
                loc, resp, nreq, lastPut, ticks, hist>>

CD_Compress ==
    /\ codec.stage = "compress"
    /\ LET c == CompressData(codec.x) IN
       codec' = [codec EXCEPT !.z = c.data, !.zerr = c.err,
                              !.stage = IF c.err THEN "done"
                                        ELSE "decompress"]
    /\ UNCHANGED serverVars

CD_Decompress ==
    /\ codec.stage = "decompress"
    /\ LET d == DecompressData(codec.z) IN
       codec' = [codec EXCEPT !.out = d.data, !.outerr = d.err,
                              !.stage = "done"]
    /\ UNCHANGED serverVars

NextCodec ==
    \/ CD_Compress
    \/ CD_Decompress

SpecCodec == InitCodec /\ [][NextCodec]_vars

\* ShouldCompress called directly on a content type and a size.
MaxTypeLen == 2

TypeTokens ==
    {"text/", "application/", "image/", "json", "javascript", "xml", "yaml",
     "svg", "plain", "png", "octet-stream"}

ContentTypes == UNION {[1..n -> TypeTokens] : n \in 0..MaxTypeLen}

InitShould ==
    /\ InitServer(FALSE, InitStore)
    /\ \E t \in ContentTypes, n \in 0..MaxCacheSize :
          codec = [NoCodec EXCEPT !.stage = "should", !.contentType = t,
                                  !.size = n]

SC_ShouldCompress ==
    /\ codec.stage = "should"
    /\ codec' = [codec EXCEPT
                   !.should = ShouldCompress(codec.contentType, codec.size),
                   !.stage = "answered"]
    /\ UNCHANGED serverVars

NextShould == SC_ShouldCompress

SpecShould == InitShould /\ [][NextShould]_vars

\* The server with the cleanup routine running, serving GETs concurrently.
\* Every goroutine that can take a step eventually takes one; requests
\* and clock ticks arrive as the environment pleases.
MaxLiveRequests == 2

InitLive == InitState(TRUE, BurstStore)

StartLive(p) == StartReq(p, BurstRequests, MaxLiveRequests, FALSE)

ProcStep(p) ==
    \/ GetFromCache(p)
    \/ DFC_LoadAndDelete(p)
    \/ DFC_Lock(p)
    \/ DFC_Sub(p)
    \/ Fetch(p)
    \/ ATC_Begin(p)
    \/ CLN_Range(p)
    \/ CLN_Delete(p)
    \/ ATC_Store(p)
    \/ Respond(p)
    \/ Finish(p)

SweeperStep ==
    \/ SW_Start
    \/ SW_Range
    \/ DFC_LoadAndDelete(Sweeper)
    \/ DFC_Lock(Sweeper)
    \/ DFC_Sub(Sweeper)

NextLive ==
    \/ \E p \in Procs : StartLive(p)
    \/ \E p \in Procs : ProcStep(p)
    \/ SweeperStep
    \/ Tick

SpecLive ==
    /\ InitLive
    /\ [][NextLive]_vars
    /\ \A p \in Procs : WF_vars(ProcStep(p))
    /\ WF_vars(SweeperStep)

\* The server as main starts it, in front of a backend holding a text that
\* gzip makes smaller, a text that it does not, and a binary object; GETs
\* with and without Accept-Encoding: gzip, served one at a time.
MaxServeRequests == 3

ServeStore ==
    [k \in CacheKeys |->
        CASE k = GetCacheKey("public", "a") -> Object(BigText, CT_TextPlain, 0)
          [] k = GetCacheKey("private", "a") ->
                 Object(HalfFull, CT_TextPlain, 0)
          [] k = GetCacheKey("inbox", "a") -> Object(Noise, CT_Octet, 0)
          [] OTHER -> NoObject]

InitServe == InitState(FALSE, ServeStore)

ServeRequests ==
    {r \in RequestsOn(EvictBuckets, {"a"}, {"GET"}, {}) : r.method = "GET"}

StartServe(p) == StartReq(p, ServeRequests, MaxServeRequests, TRUE)

NextServe ==
    \/ \E p \in SeqProcs : StartServe(p)
    \/ \E p \in Procs : GetFromCache(p)
    \/ \E t \in Threads : DFC_LoadAndDelete(t)
    \/ \E t \in Threads : DFC_Lock(t)
    \/ \E t \in Threads : DFC_Sub(t)
    \/ \E p \in Procs : Fetch(p)
    \/ \E p \in Procs : ATC_Begin(p)
    \/ \E p \in Procs : CLN_Range(p)
    \/ \E p \in Procs : CLN_Delete(p)
    \/ \E p \in Procs : ATC_Store(p)
    \/ \E p \in Procs : Respond(p)
    \/ \E p \in Procs : FinishSeq(p)
    \/ Tick

SpecServe == InitServe /\ [][NextServe]_vars


\* ------------------------------------------------------------------------
\* Properties
\* ------------------------------------------------------------------------
RECURSIVE SumOver(_, _)
SumOver(S, f) ==
    IF S = {} THEN 0
    ELSE LET x == CHOOSE y \in S : TRUE IN f[x] + SumOver(S \ {x}, f)

\* The size an entry is accounted with: compressed size when compressed.
ChosenSize(entry) ==
    IF entry = NoEntry THEN 0
    ELSE IF entry.IsCompressed THEN entry.CompressedSize ELSE entry.Size

LiveSizeSum == SumOver(CacheKeys, [k \in CacheKeys |-> ChosenSize(cache[k])])

Quiescent ==
    /\ \A p \in Procs : pc[p] = "idle"
    /\ pc[Sweeper] \in {"sw_wait", "sw_off"}
    /\ cacheMux = Free

\* The step is taken by thread t.
StepOf(t) == pc'[t] # pc[t] \/ loc'[t] # loc[t]

\* A Get of key k issued in this state would miss.
WouldMiss(k) == cache[k] = NoEntry \/ ~(now < cache[k].ExpiresAt)

DecodedBody(r) ==
    IF r.contentEncoding = "gzip" THEN DecompressData(r.body).data ELSE r.body

Answered(p) == pc[p] \in {"respond", "done"}

\* C1: in every quiescent state the size counter equals the sum of the
\* chosen (compressed-or-raw) sizes of the entries in the map.
C1_SizeEqualsLiveSum == Quiescent => cacheSize = LiveSizeSum

\* C2: a GET that starts after a PUT of its key was answered 200 is never
\* served, from the cache, the bytes of an object older than that PUT.
C2_NoStaleHitAfterPut ==
    \A p \in Procs :
        (/\ Answered(p)
         /\ req[p].method = "GET"
         /\ resp[p].fromCache)
        => \/ loc[p].entry.LastModified >= req[p].seenPut.gen
           \/ loc[p].entry.Data = req[p].seenPut.data

\* C3: in a sequential run GET(k), PUT(k), GET(k) with both first requests
\* answered 200, the second GET is not served from the cache; it finds the
\* object the PUT stored and, answered 200, carries the backend's bytes.
C3_Pattern(p) ==
    /\ Answered(p)
    /\ req[p].method = "GET"
    /\ Len(hist) >= 2
    /\ hist[Len(hist)].method = "PUT"
    /\ hist[Len(hist)].status = 200
    /\ hist[Len(hist)].ckey = CacheKeyOf(p)
    /\ hist[Len(hist) - 1].method = "GET"
    /\ hist[Len(hist) - 1].status = 200
    /\ hist[Len(hist) - 1].ckey = CacheKeyOf(p)

C3_GetPutGetReadsBackend ==
    \A p \in Procs :
        C3_Pattern(p) =>
            /\ ~resp[p].fromCache
            /\ resp[p].status \in {200, 500}
            /\ resp[p].status = 200 =>
                  /\ DecodedBody(resp[p]) = store[CacheKeyOf(p)].data
                  /\ resp[p].etag = store[CacheKeyOf(p)].etag

\* The second GET answers 200 with bytes that differ from the first GET's.
C3_Witness ==
    \E p \in Procs :
        /\ C3_Pattern(p)
        /\ pc[p] = "done"
        /\ resp[p].status = 200
        /\ resp[p].body # hist[Len(hist) - 1].body

\* C4: a GET that follows a PUT answered 200 returns the PUT's body and
\* Content-Type.
C4_PutGetRoundTrip ==
    \A p \in Procs :
        (/\ Answered(p)
         /\ req[p].method = "GET"
         /\ resp[p].status = 200
         /\ Len(hist) >= 1
         /\ hist[Len(hist)].method = "PUT"
         /\ hist[Len(hist)].status = 200
         /\ hist[Len(hist)].ckey = CacheKeyOf(p)
         /\ hist[Len(hist)].reqBody.kind = "raw")
        => /\ DecodedBody(resp[p]) = hist[Len(hist)].reqBody.bytes
           /\ resp[p].contentType = hist[Len(hist)].reqContentType

\* The steps of AddToCache for data longer than MaxCacheSize.
OversizePutStep(p) ==
    /\ pc[p] \in {"atc_lock", "cln_range", "cln_delete", "atc_store"}
    /\ Len(loc[p].data) > MaxCacheSize
    /\ StepOf(p)

\* C5, as stated: a Put whose size exceeds maxSize leaves map and counter as
\* they were, and a Get of the key issued next is a miss.
C5_RejectedPutThenMiss ==
    [][\A p \in Procs :
          OversizePutStep(p) =>
             /\ cache' = cache
             /\ cacheSize' = cacheSize
             /\ WouldMiss(CacheKeyOf(p))']_vars

\* C5, amended: a Put whose size exceeds maxSize returns at once and leaves
\* map, counter and lock as they were; a Get of the key issued next is a
\* miss when the key held no entry before the Put.
C5_RejectedPutFrame ==
    [][\A p \in Procs :
          OversizePutStep(p) =>
             /\ cache' = cache
             /\ cacheSize' = cacheSize
             /\ cacheMux' = cacheMux
             /\ pc'[p] = "respond"
             /\ cache[CacheKeyOf(p)] = NoEntry => WouldMiss(CacheKeyOf(p))']_vars

\* A Put was rejected while the map held entries.
C5_Witness ==
    \E p \in Procs :
        /\ pc[p] = "respond"
        /\ loc[p].rejected
        /\ Len(loc[p].data) > MaxCacheSize
        /\ \E k \in CacheKeys : cache[k] # NoEntry
        /\ cacheSize # 0

\* C6: GetFromCache returns a hit only for an entry in the map with
\* now < ExpiresAt; for an entry at or past ExpiresAt it reports a miss,
\* and that entry is no longer in the map when it returns.
C6_ExpiredNeverServed ==
    [][\A p \in Procs :
          LET k == CacheKeyOf(p) IN
          /\ (pc[p] = "gfc_load" /\ StepOf(p)) =>
                /\ resp'[p].fromCache =>
                      /\ cache[k] # NoEntry
                      /\ now < cache[k].ExpiresAt
                      /\ loc'[p].entry = cache[k]
                /\ (cache[k] # NoEntry /\ now >= cache[k].ExpiresAt) =>
                      /\ ~resp'[p].fromCache
                      /\ pc'[p] = "dfc_lad"
          /\ (/\ pc[p] \in {"dfc_lad", "dfc_sub"}
              /\ req[p].method \in {"GET", "HEAD"}
              /\ pc'[p] \in {"hg_fetch", "hh_stat"}) =>
                /\ cache'[k] # loc[p].entry
                /\ ~resp'[p].fromCache]_vars

\* A Get made at the very instant of expiry has reported its miss.
C6_Witness ==
    \E p \in Procs :
        /\ pc[p] \in {"hg_fetch", "hh_stat"}
        /\ loc[p].entry # NoEntry
        /\ loc[p].dfound
        /\ now = loc[p].entry.ExpiresAt

\* C7: DeleteFromCache of a key that is not in the map (a second Delete,
\* or a key never cached) changes neither the map nor the counter, takes
\* no lock and returns normally.
C7_DeleteIdempotent ==
    [][\A t \in Threads :
          (/\ pc[t] = "dfc_lad"
           /\ cache[loc[t].dkey] = NoEntry
           /\ StepOf(t))
          => /\ cache' = cache
             /\ cacheSize' = cacheSize
             /\ cacheMux' = cacheMux
             /\ pc'[t] = loc[t].dret]_vars

\* A Delete found nothing right after a Delete of the same key that removed
\* an entry.
C7_Witness ==
    \E p \in Procs :
        /\ pc[p] \in {"hp_store", "hd_remove"}
        /\ ~loc[p].dfound
        /\ Len(hist) >= 1
        /\ hist[Len(hist)].method \in {"PUT", "DELETE"}
        /\ hist[Len(hist)].ckey = CacheKeyOf(p)
        /\ hist[Len(hist)].dfound
        /\ cacheSize # 0

\* The permission the specification asks for.
Permitted(bucket, method) ==
    /\ bucket \in DOMAIN BucketAccess
    /\ \/ method \in {"GET", "HEAD"} /\ BucketAccess[bucket] \in {"read", "all"}
       \/ method \in {"PUT", "DELETE"} /\ BucketAccess[bucket] \in {"write", "all"}

InPipeline(p) == \E i \in 1..Len(resp[p].entered) : resp[p].entered[i] = "mux"

\* C8: a request reaches the inner pipeline exactly when its method is
\* GET/HEAD and the bucket's permission is read or all, or its method is
\* PUT/DELETE and the permission is write or all; every other request is
\* answered 403.
C8_PolicyMatrix ==
    \A p \in Procs :
        pc[p] # "idle" =>
            /\ InPipeline(p) <=> Permitted(req[p].bucket, req[p].method)
            /\ ~Permitted(req[p].bucket, req[p].method) => resp[p].status = 403

\* The request process p serves before or after the step.
DeniedStep(p) ==
    /\ StepOf(p)
    /\ LET r == IF pc[p] = "idle" THEN req'[p] ELSE req[p] IN
       ~WithValidation(BucketAccess, r.bucket, r.method)

\* C9: a request the access policy denies is answered 403, never enters
\* the pipeline, and none of its steps changes the cache map, the size
\* counter, the lock or the backend.
C9_DeniedIsFree ==
    [][\A p \in Procs :
          DeniedStep(p) =>
             /\ UNCHANGED <<cache, cacheSize, cacheMux, store, storeClock>>
             /\ pc'[p] \in {"respond", "done", "idle"}
             /\ pc'[p] # "idle" =>
                   /\ resp'[p].status = 403
                   /\ ~InPipeline(p)']_vars

\* A PUT to the read-only bucket was answered 403 while the cache held an
\* entry.
C9_Witness ==
    \E p \in Procs :
        /\ pc[p] = "done"
        /\ req[p].method = "PUT"
        /\ req[p].bucket = "public"
        /\ resp[p].status = 403
        /\ \E k \in CacheKeys : cache[k] # NoEntry

\* C10: every request runs instrumentation-start, then the policy check,
\* then the pipeline only if the policy allows it, then
\* instrumentation-finish, which records the final status, 403 included.
C10_StageOrder ==
    \A p \in Procs :
        /\ pc[p] # "idle" =>
              /\ Len(resp[p].trace) >= 2
              /\ resp[p].trace[1] = "metrics_start"
              /\ resp[p].trace[2] = "policy_check"
              /\ Len(resp[p].trace) >= 3 =>
                    resp[p].trace[3] \in {"pipeline", "metrics_finish"}
              /\ (\E i \in 1..Len(resp[p].trace) :
                     resp[p].trace[i] = "pipeline")
                 <=> WithValidation(BucketAccess, req[p].bucket, req[p].method)
        /\ pc[p] = "done" =>
              /\ resp[p].trace[Len(resp[p].trace)] = "metrics_finish"
              /\ Len(resp[p].trace) =
                    IF WithValidation(BucketAccess, req[p].bucket,
                                      req[p].method)
                    THEN 4 ELSE 3
              /\ resp[p].counted = resp[p].status
              /\ resp[p].status # 0

\* A denied request has been through instrumentation and was counted.
C10_Witness ==
    \E p \in Procs :
        /\ pc[p] = "done"
        /\ resp[p].status = 403
        /\ resp[p].counted = 403
        /\ resp[p].trace = <<"metrics_start", "policy_check", "metrics_finish">>

\* C11: a GET of a key that neither the cache nor the backend holds leaves
\* the cache map and the size counter as they were at each of its steps and
\* is answered 404; only a failure of the backend call itself gives 500.
C11_AbsentGetIs404 ==
    [][\A p \in Procs :
          LET k == CacheKeyOf(p) IN
          (/\ req[p].method = "GET"
           /\ pc[p] \in {"gfc_load", "hg_fetch"}
           /\ StepOf(p)
           /\ cache[k] = NoEntry
           /\ store[k] = NoObject)
          => /\ cache' = cache
             /\ cacheSize' = cacheSize
             /\ pc[p] = "gfc_load" => pc'[p] = "hg_fetch"
             /\ pc[p] = "hg_fetch" =>
                   /\ pc'[p] = "respond"
                   /\ \/ resp'[p].status = 404
                      \/ /\ resp'[p].status = 500
                         /\ resp'[p].error = "error"]_vars

\* A GET of an absent key was answered 404 while another key was cached.
C11_Witness ==
    \E p \in Procs :
        /\ pc[p] = "done"
        /\ req[p].method = "GET"
        /\ resp[p].status = 404
        /\ cache[CacheKeyOf(p)] = NoEntry
        /\ store[CacheKeyOf(p)] = NoObject
        /\ \E k \in CacheKeys : cache[k] # NoEntry

\* The steps of a HEAD request inside the handler.
HeadStep(p) ==
    /\ req[p].method = "HEAD"
    /\ pc[p] \in {"gfc_load", "dfc_lad", "dfc_lock", "dfc_sub", "hh_stat"}
    /\ StepOf(p)

\* No step of the kind adds or replaces an entry, touches the backend or
\* enters the fetch and AddToCache path.
NeverPopulates(p) ==
    /\ \A k \in CacheKeys : cache'[k] \in {cache[k], NoEntry}
    /\ store' = store
    /\ pc'[p] \in {"dfc_lad", "dfc_lock", "dfc_sub", "hh_stat", "respond"}
    /\ pc[p] = "hh_stat" =>
          /\ cache' = cache
          /\ cacheSize' = cacheSize
          /\ pc'[p] = "respond"
    /\ (pc'[p] = "respond" /\ ~resp'[p].fromCache) =>
          WouldMiss(CacheKeyOf(p))'

\* C12, as stated: a HEAD that misses adds no entry, never fetches, leaves
\* the size counter unchanged, and a GET that follows it is a miss.
C12_HeadMissLeavesCounter ==
    [][\A p \in Procs :
          (HeadStep(p) /\ ~resp'[p].fromCache) =>
             /\ NeverPopulates(p)
             /\ cacheSize' = cacheSize]_vars

\* C12, amended: a HEAD that misses adds no entry, never fetches, and a GET
\* that follows it is a miss.  The only change it makes to the cache is the
\* lazy deletion of an expired entry under its own key, which subtracts
\* that entry's size; with no entry under the key, map and counter stay as
\* they were.
C12_HeadNeverPopulates ==
    [][\A p \in Procs :
          LET k == CacheKeyOf(p) IN
          (HeadStep(p) /\ ~resp'[p].fromCache) =>
             /\ NeverPopulates(p)
             /\ \A j \in CacheKeys :
                   cache'[j] # cache[j] =>
                      /\ j = k
                      /\ pc[p] = "dfc_lad"
                      /\ cache[j] = loc[p].entry
                      /\ ~IsFresh(now, cache[j])
             /\ cacheSize' # cacheSize =>
                   /\ pc[p] = "dfc_sub"
                   /\ cacheSize' = cacheSize - loc[p].dentry.Size
                   /\ loc[p].dentry = loc[p].entry
             /\ (pc[p] = "gfc_load" /\ cache[k] = NoEntry) =>
                   pc'[p] = "hh_stat"]_vars

\* A HEAD found an expired entry, removed it, asked the backend for the
\* metadata and was answered 200; the key has no entry.
C12_Witness ==
    \E p \in Procs :
        /\ pc[p] = "done"
        /\ req[p].method = "HEAD"
        /\ resp[p].status = 200
        /\ ~resp[p].fromCache
        /\ loc[p].dfound
        /\ cache[CacheKeyOf(p)] = NoEntry
        /\ cacheSize # 0

\* C13: a DELETE that reaches the backend is answered 204, also when the
\* backend reports that it holds no such object; only another failure of
\* the remove gives 500.
C13_RemoveNotFoundIs204 ==
    \A p \in Procs :
        (/\ Answered(p)
         /\ req[p].method = "DELETE"
         /\ resp[p].status \notin {400, 403})
        => \/ resp[p].status = 204
           \/ /\ resp[p].status = 500
              /\ resp[p].error = "error"

\* C14: an entry that has passed its ExpiresAt is eventually removed from
\* the map, whether or not a request reads its key again.
C14_ExpiredEventuallySwept ==
    \A k \in CacheKeys :
        [](  (cache[k] # NoEntry /\ now > cache[k].ExpiresAt)
          => <>(cache[k] = NoEntry))

\* C15: an entry is removed, and its size subtracted, by one path only.
\* DeleteFromCache subtracts for the entry it took out of the map with
\* LoadAndDelete, so two of its callers never subtract for the same entry;
\* the eviction of AddToCache subtracts for an entry while it visits it
\* and deletes it afterwards, so the entries it has subtracted for must
\* still be in the map, taken by no other path, until it deletes them.
C15_SubtractedOnce ==
    \A p \in Procs :
        pc[p] \in {"cln_range", "cln_delete"} =>
            \A i \in 1..Len(loc[p].keysToDelete) :
                cache[loc[p].keysToDelete[i]] # NoEntry

\* C16: in every quiescent state the size counter is at most MaxCacheSize.
C16_SizeBounded == Quiescent => cacheSize <= MaxCacheSize

\* An entry all of whose fields come from the arguments of the AddToCache
\* call that process p is making at time t.
FromOnePut(e, p, t) ==
    /\ e.Data = loc[p].data
    /\ e.Size = Len(loc[p].data)
    /\ e.ContentType = loc[p].info.contentType
    /\ e.LastModified = loc[p].info.lastModified
    /\ e.ETag = loc[p].info.etag
    /\ e.ExpiresAt = t + DefaultCacheDuration
    /\ e.CompressedSize = Len(e.CompressedData)
    /\ e.CompressedData # << >> =>
          DecompressData(e.CompressedData) = [err |-> FALSE, data |-> e.Data]
    /\ e.IsCompressed => e.CompressedData # << >>

\* A GET of process p is answered from the cache while another thread is
\* inside AddToCache or DeleteFromCache for the same key.
HitDuringWrite(p) ==
    /\ pc[p] = "respond"
    /\ req[p].method = "GET"
    /\ resp[p].fromCache
    /\ \E q \in Procs \ {p} :
          \/ pc[q] \in {"atc_store", "cln_range", "cln_delete"}
             /\ CacheKeyOf(q) = CacheKeyOf(p)
          \/ pc[q] \in {"dfc_lock", "dfc_sub"}
             /\ loc[q].dkey = CacheKeyOf(p)

InHandlePut(p) ==
    /\ req[p].method = "PUT"
    /\ pc[p] \in {"dfc_lad", "dfc_lock", "dfc_sub", "hp_store"}

C19_CompressedIffSmaller ==
    \A k \in CacheKeys :
        cache[k] # NoEntry =>
            LET e == cache[k]
                c == CompressData(e.Data)
            IN  (e.CompressedData # << >>)
                    <=> /\ ShouldCompress(e.ContentType, e.Size)
                        /\ ~c.err
                        /\ Len(c.data) < Len(e.Data)

\* Process p serves a GET, PUT, DELETE or HEAD whose bucket or key is the
\* empty string.
EmptyPath(p) ==
    /\ pc[p] # "idle"
    /\ req[p].method \in {"GET", "PUT", "DELETE", "HEAD"}
    /\ req[p].bucket = "" \/ req[p].key = ""

\* C20: a GET, PUT, DELETE or HEAD whose bucket or key is the empty string
\* is rejected before any cache lookup, cache invalidation or backend
\* call: it has its answer as soon as it is routed, no step of a handler
\* follows, and the cache, its counter and the backend are as they were.
\* The answer is the 400 of a ValidationError for every such request that
\* comes to the handler's path check, which is every one the bucket policy
\* does not stop (403) and whose JSON body, for a PUT, decodes (else 400
\* from the decoder); a bucket of policy "all" stops none.
C20_EmptyPathRejected ==
    [][\A p \in Procs :
        /\ (pc[p] = "idle" /\ EmptyPath(p)') =>
              /\ pc'[p] = "respond"
              /\ loc'[p].dkey = << >>
              /\ UNCHANGED <<cache, cacheSize, cacheMux, store, storeClock>>
              /\ resp'[p].status \in {400, 403}
              /\ resp'[p].error \notin {"Forbidden", "DecodeError"} =>
                    /\ resp'[p].status = 400
                    /\ resp'[p].error = "ValidationError"
              /\ req'[p].bucket = "private" => resp'[p].error # "Forbidden"
        /\ EmptyPath(p) =>
              /\ pc[p] \in {"respond", "done"}
              /\ pc'[p] \in {"respond", "done", "idle"}
              /\ pc'[p] # "idle" => /\ resp'[p].status = resp[p].status
                                    /\ resp'[p].error = resp[p].error
              /\ UNCHANGED <<cache, cacheSize, cacheMux, store, storeClock>>
      ]_vars

\* A PUT with a body to the empty key of a bucket of policy "all" has been
\* answered 400 while the cache holds an object of that bucket.
C20_Witness ==
    \E p \in Procs :
        /\ EmptyPath(p)
        /\ req[p].method = "PUT"
        /\ req[p].bucket = "private"
        /\ BodyLen(req[p].body) > 0
        /\ pc[p] = "done"
        /\ resp[p].status = 400
        /\ resp[p].error = "ValidationError"
        /\ cache[GetCacheKey("private", "a")] # NoEntry

\* Process p is at the store call of a PUT whose decoded input declares
\* ContentEncoding gzip.
GzipPutAtStore(p) ==
    /\ req[p].method = "PUT"
    /\ pc[p] = "hp_store"
    /\ loc[p].input.ContentEncoding = "gzip"

HeadMetadata(p) ==
    IF resp[p].fromCache
    THEN [contentType |-> loc[p].entry.ContentType,
          size |-> loc[p].entry.Size,
          etag |-> loc[p].entry.ETag,
          lastModified |-> loc[p].entry.LastModified]
    ELSE LET o == store[CacheKeyOf(p)] IN
         [contentType |-> o.contentType, size |-> Len(o.data),
          etag |-> o.etag, lastModified |-> o.lastModified]

\* C22: a HEAD answered 200 has no body and carries the object's own
\* Content-Type, Content-Length (the raw size), ETag and Last-Modified.
C22_HeadCarriesMetadata ==
    \A p \in Procs :
        (req[p].method = "HEAD" /\ pc[p] = "respond"
            /\ resp[p].status = 200) =>
            /\ resp[p].body = << >>
            /\ resp[p].contentType = HeadMetadata(p).contentType
            /\ resp[p].contentLength = HeadMetadata(p).size
            /\ resp[p].etag = HeadMetadata(p).etag
            /\ resp[p].lastModified = HeadMetadata(p).lastModified

C24_RemovalSubtractsWhatPutAdded ==
    [][/\ \A t \in Threads :
            (pc[t] = "dfc_sub" /\ pc'[t] # "dfc_sub") =>
                cacheSize' = cacheSize - ChosenSize(loc[t].dentry)
       /\ \A p \in Procs :
            (pc[p] = "cln_range" /\ cacheSize' # cacheSize) =>
                \E k \in loc'[p].visited \ loc[p].visited :
                    cacheSize' = cacheSize - ChosenSize(cache[k])
      ]_vars

\* C25: a Put on a key that holds a live entry replaces it wholesale: the
\* map then holds the new entry under the key, and the size counter has
\* lost the replaced entry's size and gained the new entry's.
C25_RePutReplacesSize ==
    [][\A p \in Procs :
        (/\ pc[p] = "atc_store"
         /\ pc'[p] # "atc_store"
         /\ cache[CacheKeyOf(p)] # NoEntry
         /\ IsFresh(now, cache[CacheKeyOf(p)])) =>
            /\ cache'[CacheKeyOf(p)] # NoEntry
            /\ cacheSize' = cacheSize - ChosenSize(cache[CacheKeyOf(p)])
                                      + ChosenSize(cache'[CacheKeyOf(p)])
      ]_vars

\* Process p, inside AddToCache, takes a step.
PutStep(p) ==
    /\ pc[p] \in {"atc_lock", "cln_range", "cln_delete", "atc_store"}
    /\ pc'[p] # pc[p] \/ loc'[p] # loc[p]

\* C26: eviction happens only when needed and only as far as needed.  A
\* Put whose size fits beside the counter goes straight to the store and
\* removes nothing; a Put that does not fit visits entries one at a time
\* and goes on only while the new entry still does not fit; it deletes
\* the entries it visited and no other; and the store puts the new entry
\* under its key, touching no other key, from where a Get at once returns
\* the data and metadata that were put.
C26_EvictionAsNeeded ==
    [][\A p \in Procs : PutStep(p) =>
        LET k == CacheKeyOf(p) IN
        /\ (pc[p] = "atc_lock" /\ pc'[p] # "respond") =>
              /\ cache' = cache
              /\ cacheSize' = cacheSize
              /\ loc'[p].keysToDelete = << >>
              /\ pc'[p] = IF cacheSize + loc'[p].newSize > MaxCacheSize
                          THEN "cln_range" ELSE "atc_store"
        /\ pc[p] = "cln_range" =>
              /\ cache' = cache
              /\ cacheSize + loc[p].newSize > MaxCacheSize
              /\ IF cacheSize' # cacheSize
                 THEN /\ \E j \in CacheKeys :
                           /\ cache[j] # NoEntry
                           /\ loc'[p].keysToDelete =
                                  Append(loc[p].keysToDelete, j)
                      /\ pc'[p] =
                            IF cacheSize' + loc[p].newSize > MaxCacheSize
                            THEN "cln_range" ELSE "cln_delete"
                 ELSE /\ pc'[p] = "cln_delete"
                      /\ loc'[p].keysToDelete = loc[p].keysToDelete
        /\ pc[p] = "cln_delete" =>
              /\ cacheSize' = cacheSize
              /\ \A j \in CacheKeys :
                    cache'[j] # cache[j] =>
                        /\ cache'[j] = NoEntry
                        /\ j = Head(loc[p].keysToDelete)
        /\ pc[p] = "atc_store" =>
              /\ \A j \in CacheKeys \ {k} : cache'[j] = cache[j]
              /\ cache'[k] # NoEntry
              /\ IsFresh(now', cache'[k])
              /\ cache'[k].Data = loc[p].data
              /\ cache'[k].Size = Len(loc[p].data)
              /\ cache'[k].ContentType = loc[p].info.contentType
              /\ cache'[k].ETag = loc[p].info.etag
              /\ cache'[k].LastModified = loc[p].info.lastModified
              /\ GetHitResponse(cache'[k], FALSE).Body = loc[p].data
      ]_vars

\* A Put that had to evict has stored its entry and stopped with another
\* key's entry still in the map.
C26_Witness ==
    \E p \in Procs :
        /\ pc[p] = "respond"
        /\ loc[p].evicted
        /\ cache[CacheKeyOf(p)] # NoEntry
        /\ \E j \in CacheKeys \ {CacheKeyOf(p)} : cache[j] # NoEntry
        /\ \E j \in CacheKeys : store[j] # NoObject /\ cache[j] = NoEntry

\* C27: one pass of the periodic sweep deletes exactly the entries with
\* now >= ExpiresAt, the entry whose ExpiresAt equals now included, and
\* leaves every other entry and the counter as they are: for each entry
\* the pass visits, it calls DeleteFromCache on its key if the entry has
\* expired at the time the pass read, and else goes on.
C27_SweepDeletesExpired ==
    [][pc[Sweeper] = "sw_range" =>
        \A k \in loc'[Sweeper].visited \ loc[Sweeper].visited :
            /\ cache' = cache
            /\ cacheSize' = cacheSize
            /\ IF loc[Sweeper].swNow >= cache[k].ExpiresAt
               THEN /\ pc'[Sweeper] = "dfc_lad"
                    /\ loc'[Sweeper].dkey = k
               ELSE pc'[Sweeper] = "sw_range"
      ]_vars

\* The last completed request was a GET of key k answered 200 with a body
\* longer than MaxCacheSize.
LastWasOversizedGet(k) ==
    /\ Len(hist) >= 1
    /\ hist[Len(hist)].method = "GET"
    /\ hist[Len(hist)].ckey = k
    /\ hist[Len(hist)].status = 200
    /\ Len(hist[Len(hist)].body) > MaxCacheSize

GetHitStep(p) ==
    /\ req[p].method = "GET"
    /\ pc[p] = "gfc_load"
    /\ pc'[p] = "respond"

\* C29: on a GET cache hit the body is the entry's compressed bytes if
\* and only if the entry is compressed and the request accepts gzip, and
\* else its raw bytes; Content-Encoding is gzip exactly when compressed
\* bytes are served, Content-Length is the length of the bytes served, and
\* Content-Type, ETag and Last-Modified are the entry's own.
C29_HitServesByAccept ==
    [][\A p \in Procs : GetHitStep(p) =>
        LET e == cache[CacheKeyOf(p)]
            r == resp'[p]
        IN  /\ e # NoEntry
            /\ r.status = 200
            /\ r.fromCache
            /\ IF e.IsCompressed /\ req[p].acceptGzip
               THEN /\ r.body = e.CompressedData
                    /\ r.contentEncoding = "gzip"
                    /\ r.body # e.Data
               ELSE /\ r.body = e.Data
                    /\ r.contentEncoding = ""
            /\ r.contentLength = Len(r.body)
            /\ r.contentType = e.ContentType
            /\ r.etag = e.ETag
            /\ r.lastModified = e.LastModified
      ]_vars

\* A GET that does not accept gzip has been served the raw bytes of a
\* compressed entry.
C29_Witness ==
    \E p \in Procs :
        /\ req[p].method = "GET"
        /\ ~req[p].acceptGzip
        /\ pc[p] = "respond"
        /\ resp[p].fromCache
        /\ loc[p].entry # NoEntry
        /\ loc[p].entry.IsCompressed
        /\ resp[p].body = BigText
        /\ resp[p].contentEncoding = ""

\* Thread t takes the step that removes the entry of key k from the map.
Removes(t, k) ==
    \/ pc[t] = "dfc_lad" /\ pc'[t] = "dfc_lock" /\ loc[t].dkey = k
    \/ /\ pc[t] = "cln_delete"
       /\ loc[t].keysToDelete # << >>
       /\ Head(loc[t].keysToDelete) = k
       /\ loc'[t].keysToDelete # loc[t].keysToDelete

\* C30: a successful GET miss populates the cache at its key when the
\* object fits, and the next GET of the key within the TTL, with no PUT,
\* DELETE or eviction of the key in between, is served from the cache
\* without a backend fetch.  That is: the miss stores a live entry under
\* its key before it answers; a live entry leaves the map only through
\* the invalidation of a PUT or DELETE of its key or through eviction;
\* and a GET that finds a live entry answers from it.
C30_MissPopulatesThenHit ==
    [][/\ \A p \in Procs :
            (/\ req[p].method = "GET"
             /\ pc[p] \in {"atc_lock", "cln_range", "cln_delete",
                            "atc_store"}
             /\ pc'[p] = "respond"
             /\ Len(loc[p].data) <= MaxCacheSize) =>
                /\ resp'[p].status = 200
                /\ cache'[CacheKeyOf(p)] # NoEntry
                /\ cache'[CacheKeyOf(p)].Data = loc[p].data
                /\ cache'[CacheKeyOf(p)].ExpiresAt
                      = now + DefaultCacheDuration
       /\ \A k \in CacheKeys :
            (/\ cache[k] # NoEntry
             /\ now < cache[k].ExpiresAt
             /\ cache'[k] = NoEntry) =>
                \E t \in Threads :
                    /\ Removes(t, k)
                    /\ \/ pc[t] = "cln_delete"
                       \/ /\ t \in Procs
                          /\ req[t].method \in {"PUT", "DELETE"}
       /\ \A p \in Procs :
            (/\ req[p].method = "GET"
             /\ pc[p] = "gfc_load"
             /\ pc'[p] # "gfc_load"
             /\ cache[CacheKeyOf(p)] # NoEntry
             /\ now < cache[CacheKeyOf(p)].ExpiresAt) =>
                /\ pc'[p] = "respond"
                /\ resp'[p].fromCache
                /\ resp'[p].status = 200
      ]_vars

\* Process p, serving a PUT, has its object accepted by the backend.
PutStored(p) ==
    /\ req[p].method = "PUT"
    /\ pc[p] = "hp_store"
    /\ pc'[p] = "respond"
    /\ store' # store \/ storeClock' # storeClock

WriteInFlight(p) ==
    /\ req[p].method \in {"PUT", "DELETE"}
    /\ pc[p] # "idle"

\* The backend call of process p returns an error.
BackendWriteFails(p) ==
    /\ pc[p] \in {"hp_store", "hd_remove"}
    /\ pc'[p] = "respond"
    /\ resp'[p].error \notin {"", "ValidationError"}

\* C32: when the backend store of a PUT or the backend remove of a DELETE
\* fails, the request is answered 500 and its key stays invalidated: the
\* backend is as it was, the cache holds no entry for the key when the
\* call fails and until the request is done, and no step of the request
\* touches the entry of another key.
C32_FailedWriteStaysInvalidated ==
    [][\A p \in Procs : WriteInFlight(p) =>
        LET k == CacheKeyOf(p) IN
        /\ \A j \in CacheKeys \ {k} : cache'[j] = cache[j]
        /\ BackendWriteFails(p) =>
              /\ resp'[p].status = 500
              /\ store' = store
              /\ cache[k] = NoEntry
              /\ cache'[k] = NoEntry
        /\ (pc[p] \in {"respond", "done"} /\ resp[p].status = 500) =>
              /\ cache[k] = NoEntry
              /\ cache'[k] = NoEntry
      ]_vars

\* A PUT whose invalidation removed an entry has been answered 500 while
\* the entry of another key is in the cache.
C32_Witness ==
    \E p \in Procs :
        /\ req[p].method = "PUT"
        /\ pc[p] = "respond"
        /\ resp[p].status = 500
        /\ loc[p].dfound
        /\ cache[CacheKeyOf(p)] = NoEntry
        /\ \E j \in CacheKeys \ {CacheKeyOf(p)} : cache[j] # NoEntry

\* The request of process p ended with an error that its handler returned
\* to the pipeline (not a refusal by the policy, the method switch or the
\* body decoder, which answer before the handler is called).
HandlerError(p) ==
    /\ Answered(p)
    /\ resp[p].error \notin {"", "Forbidden", "MethodNotAllowed",
                              "DecodeError"}

\* C33: every error a handler returns maps to exactly one status, 400 for
\* a ValidationError, 404 for a NotFoundError and 500 for any other, and
\* never to a 2xx; and a 2xx answer carries no error.
C33_ErrorTaxonomy ==
    \A p \in Procs :
        /\ HandlerError(p) =>
              /\ resp[p].error = "ValidationError" => resp[p].status = 400
              /\ resp[p].error = "NotFoundError" => resp[p].status = 404
              /\ resp[p].error \notin {"ValidationError", "NotFoundError"}
                    => resp[p].status = 500
              /\ resp[p].contentType = CT_Json
        /\ (Answered(p) /\ resp[p].status \in 200..299) =>
              resp[p].error = ""

\* A GET of an absent object has been answered 404.
C33_Witness ==
    \E p \in Procs :
        /\ HandlerError(p)
        /\ req[p].method = "GET"
        /\ resp[p].error = "NotFoundError"
        /\ resp[p].status = 404
        /\ store[CacheKeyOf(p)] = NoObject

\* Process p is waiting on a backend call: fetch, stat, store or remove.
AtBackend(p) == pc[p] \in {"hg_fetch", "hh_stat", "hp_store", "hd_remove"}

\* C34: the cache lock is never held across a backend call: a request
\* that is waiting on the backend does not hold cacheMux.
C34_NoLockAcrossBackend ==
    \A p \in Procs : AtBackend(p) => cacheMux # p

\* A request that took and released the lock in DeleteFromCache waits on
\* the backend while another request holds the lock.
C34_Witness ==
    \E p \in Procs :
        /\ AtBackend(p)
        /\ loc[p].dfound
        /\ cacheMux \in Procs \ {p}

\* Process p looks its key up in the cache.
LookupStep(p) == pc[p] = "gfc_load" /\ pc'[p] # "gfc_load"

\* C35: an entry's expiry is fixed at creation as the store time plus the
\* TTL and is never extended.  An entry is created with ExpiresAt = now +
\* DefaultCacheDuration; the entry under a key changes only by being
\* removed or replaced by a Put; a hit changes neither the map nor the
\* counter; and a lookup is a hit exactly while now < ExpiresAt, however
\* often the entry has been read.
C35_ExpiryFixedAtCreation ==
    [][/\ \A k \in CacheKeys :
            (cache'[k] # cache[k] /\ cache'[k] # NoEntry) =>
                /\ cache'[k].ExpiresAt = now + DefaultCacheDuration
                /\ \E p \in Procs :
                      pc[p] = "atc_store" /\ pc'[p] = "respond"
       /\ \A p \in Procs : LookupStep(p) =>
            LET e == cache[CacheKeyOf(p)] IN
            /\ cache' = cache
            /\ cacheSize' = cacheSize
            /\ (pc'[p] = "respond") <=> (e # NoEntry /\ now < e.ExpiresAt)
      ]_vars

\* An entry stored one tick ago has been read, and is in the map as it
\* was stored.
C35_Witness ==
    \E p \in Procs :
        /\ pc[p] = "respond"
        /\ resp[p].fromCache
        /\ now >= 1
        /\ loc[p].entry.ExpiresAt = now - 1 + DefaultCacheDuration
        /\ cache[CacheKeyOf(p)] = loc[p].entry

\* The content type starts with one of the six compressible prefixes.
HasCompressiblePrefix(t) ==
    /\ Len(t) >= 1
    /\ \/ t[1] = "text/"
       \/ /\ Len(t) >= 2
          /\ \/ /\ t[1] = "application/"
                /\ t[2] \in {"json", "javascript", "xml", "yaml"}
             \/ /\ t[1] = "image/"
                /\ t[2] = "svg"

ExpiryRemoval(t) ==
    /\ pc[t] = "dfc_lad"
    /\ pc'[t] = "dfc_lock"
    /\ t = Sweeper \/ req[t].method \in {"GET", "HEAD"}

\* C37: lazy expiry and the periodic sweep remove only the expired entry
\* they observed: the entry they take out of the map has expired, and for
\* lazy expiry it is the entry the lookup loaded; a fresh entry stored
\* under the key in between stays in the map.
C37_OnlyObservedExpiredRemoved ==
    [][\A t \in Threads : ExpiryRemoval(t) =>
        LET e == cache[loc[t].dkey] IN
        /\ e # NoEntry
        /\ ~IsFresh(now, e)
        /\ t # Sweeper => e = loc[t].entry
      ]_vars

\* C38: the size counter is never negative.
C38_CounterNonNegative == cacheSize >= 0

InEngine(t) ==
    pc[t] \in {"gfc_load", "dfc_lad", "dfc_lock", "dfc_sub", "atc_lock",
               "cln_range", "cln_delete", "atc_store", "sw_range"}

AcquiresHeldLock(t) == pc[t] \in {"atc_lock", "dfc_lock"} /\ cacheMux = t

\* C39: the cache engine is deadlock-free: under fair scheduling every
\* Put, Get, Delete and sweep pass that has started eventually completes,
\* and no goroutine reaches a cacheMux.Lock() while it holds cacheMux,
\* the eviction path of Put and the lazy deletion of Get included.
C39_DeadlockFree ==
    /\ [](\A t \in Threads : ~AcquiresHeldLock(t))
    /\ \A t \in Threads : InEngine(t) ~> ~InEngine(t)

\* A Put is on its eviction path, holding the lock, while another
\* goroutine's deletion waits for it.
C39_Witness ==
    \E p \in Procs : \E t \in Threads \ {p} :
        /\ pc[p] \in {"cln_range", "cln_delete"}
        /\ cacheMux = p
        /\ pc[t] = "dfc_lock"

\* Process p, serving a GET, writes a 200 reply: from the cache on a hit,
\* from the fetched object on a miss.
GetServedStep(p) ==
    /\ req[p].method = "GET"
    /\ pc[p] \in {"gfc_load", "atc_lock", "atc_store"}
    /\ pc'[p] = "respond"
    /\ resp'[p].status = 200

\* The gzip decision the object and the request call for.
GzipCalledFor(data, contentType, acceptsGzip) ==
    /\ acceptsGzip
    /\ ShouldCompress(contentType, Len(data))
    /\ Len(CompressData(data).data) < Len(data)

\* C40: for a given object and a given Accept-Encoding a GET returns the
\* same body and the same gzip decision on a cache hit and on a miss: the
\* body is the gzip form of the object exactly when the request accepts
\* gzip, ShouldCompress holds for the object and the gzip form is strictly
\* smaller than the raw bytes, and the raw bytes otherwise.
C40_HitAndMissServeAlike ==
    [][\A p \in Procs : GetServedStep(p) =>
        LET hit == pc[p] = "gfc_load"
            o == store[CacheKeyOf(p)]
            data == IF hit THEN cache[CacheKeyOf(p)].Data ELSE loc[p].data
            ctype == IF hit THEN cache[CacheKeyOf(p)].ContentType
                     ELSE loc[p].info.contentType
            gz == GzipCalledFor(data, ctype, req[p].acceptGzip)
            r == resp'[p]
        IN  /\ r.fromCache = hit
            /\ o # NoObject /\ data = o.data /\ ctype = o.contentType
            /\ r.body = IF gz THEN CompressData(data).data ELSE data
            /\ r.contentEncoding = IF gz THEN "gzip" ELSE ""
      ]_vars

\* A GET accepting gzip is answered from the cache after the GET before
\* it, of the same object, was answered from the backend with the same
\* body.
C40_Witness ==
    \E p \in Procs :
        /\ pc[p] = "respond"
        /\ req[p].method = "GET"
        /\ req[p].acceptGzip
        /\ resp[p].fromCache
        /\ resp[p].contentEncoding = "gzip"
        /\ nreq = 2
        /\ Len(hist) = 1
        /\ hist[1].ckey = CacheKeyOf(p)
        /\ hist[1].status = 200
        /\ hist[1].body = resp[p].body

====
